---- MODULE Spec2Model ----
(***************************************************************************)
(* A model of BingoBot (src/bingobot.py): the SQLite store (BingoDB), the  *)
(* setup wizard, the signup / approval reaction handlers, the submission   *)
(* handler and the 30-second scheduler tick.                               *)
(*                                                                         *)
(* The bot runs on one asyncio event loop: the code between two awaits of  *)
(* a coroutine runs without interruption, so every action below is the     *)
(* code from one suspension point to the next.  An await that completes    *)
(* either returns or raises; both outcomes are modelled.                   *)
(***************************************************************************)
EXTENDS Integers, Sequences, FiniteSets, Bags, TLC

\* ------------------------------------------------------------------ bounds
MaxTime == 2        \* the wall clock runs 0..MaxTime
MaxUsers == 3       \* users 1..MaxUsers react to the signup post
MaxTeamSize == 2    \* team sizes 0..MaxTeamSize answer the wizard
MaxSubs == 1        \* submissions handled, in flight or stored
MaxRequired == 2    \* approvals required 1..MaxRequired answer the wizard

Users == 1..MaxUsers

\* ------------------------------------------------- the platform (discord)
Guilds == {"g1", "g2"}
HomeGuild == "g1"
TextChannels == {"c_text"}
ChannelIds == TextChannels \cup {"c_voice"}

\* member.guild_permissions.manage_guild or .administrator: user 1 is a plain
\* member, every other user holds the capability
IsAdmin(u) == u >= 2

SIGNUP_EMOJI == "signup"
UNSIGN_EMOJI == "unsign"
APPROVE_EMOJI == "approve"
Emojis == {SIGNUP_EMOJI, UNSIGN_EMOJI, APPROVE_EMOJI}

\* isinstance(guild.get_channel(id), discord.TextChannel)
IsTextChannel(ch) == ch \in TextChannels

\* Message ids: <<kind, owner, serial>>; NullMsg is SQL NULL (falsy in Python).
NullMsg == <<"null", 0, 0>>
SignupMsg(b) == <<"signup", b, 1>>
LbMsg(b, k) == <<"lb", b, k>>
SubMsg(k) == <<"sub", 0, k>>

ActiveStatuses == {"setup", "signup_open", "signup_closed", "running"}
DueStatuses == {"signup_open", "signup_closed", "running"}
ShowBoardChoices == {"signup_created", "signups_close", "bingo_start"}
ApprovalModes == {"none", "admin", "nonteammate"}

\* ------------------------------------------------------------------- state
VARIABLES
    now,             \* utc_now()
    guild_settings,  \* table guild_settings: a set of rows, key guild_id
    bingos,          \* table bingos: row b has id b (AUTOINCREMENT)
    signups,         \* table signups: rows <<bingo_id, user_id>>
    teams,           \* table teams: rows <<bingo_id, team_number, user_id>>
    submissions,     \* table submissions: row s has id s (AUTOINCREMENT)
    approvals,       \* table approvals: a bag of rows <<submission_id, user_id>>
    setup,           \* the running bingosetup coroutines
    tick,            \* the bingo_tick coroutine
    submit,          \* the running handle_submission coroutines
    react,           \* the running on_raw_reaction_add coroutines (approvals)
    frozen,          \* per event: the roster list_signups returned at signup close
    out              \* outbound calls made so far, counted per kind and target

vars == <<now, guild_settings, bingos, signups, teams, submissions, approvals,
          setup, tick, submit, react, frozen, out>>

Setups == {1, 2}
Submitters == {1, 2}
Reactors == {1, 2}

BingoIds == 1..Len(bingos)
SubIds == 1..Len(submissions)

\* --------------------------------------------------------------- the store
\* BingoDB.get_guild_settings: the rows of the guild (none or one)
GetGuildSettings(g) == {r \in guild_settings : r.guild_id = g}

\* BingoDB.upsert_guild_settings: INSERT .. ON CONFLICT(guild_id) DO UPDATE
UpsertGuildSettings(tbl, gs) == {r \in tbl : r.guild_id # gs.guild_id} \cup {gs}

\* BingoDB.get_active_bingo: the ids of the guild's rows with an active status
ActiveBingos(tbl, g) ==
    {b \in 1..Len(tbl) : tbl[b].guild_id = g /\ tbl[b].status \in ActiveStatuses}

HasActiveBingo(tbl, g) == ActiveBingos(tbl, g) # {}

\* ... ORDER BY id DESC LIMIT 1
GetActiveBingo(tbl, g) ==
    LET ids == ActiveBingos(tbl, g)
    IN  tbl[CHOOSE b \in ids : \A c \in ids : c <= b]

\* BingoDB.create_bingo: the row inserted, with status 'signup_open' and the
\* two message columns NULL
NewBingo(id, g, cfg) ==
    [id |-> id,
     guild_id |-> g,
     team_size |-> cfg.team_size,
     start_utc |-> cfg.start_utc,
     end_utc |-> cfg.end_utc,
     signup_close_utc |-> cfg.start_utc - cfg.close_hours,
     show_board_when |-> cfg.show_board_when,
     approvals_mode |-> cfg.approvals_mode,
     approvals_required |-> cfg.approvals_required,
     status |-> "signup_open",
     signup_message_id |-> NullMsg,
     leaderboard_message_id |-> NullMsg,
     board_image_path |-> cfg.board_image_path]

CreateBingo(tbl, g, cfg) == Append(tbl, NewBingo(Len(tbl) + 1, g, cfg))

\* BingoDB.set_status
SetStatus(tbl, b, status) == [tbl EXCEPT ![b].status = status]

\* BingoDB.set_signup_message_id
SetSignupMessageId(tbl, b, m) == [tbl EXCEPT ![b].signup_message_id = m]

\* BingoDB.set_leaderboard_message_id
SetLeaderboardMessageId(tbl, b, m) == [tbl EXCEPT ![b].leaderboard_message_id = m]

\* BingoDB.add_signup: INSERT OR IGNORE
AddSignup(tbl, b, u) == tbl \cup {<<b, u>>}

\* (mutant) DELETE FROM signups WHERE bingo_id=? without the user
RemoveSignupAll(tbl, b, u) == {r \in tbl : r[1] # b}

\* BingoDB.remove_signup
RemoveSignup(tbl, b, u) == tbl \ {<<b, u>>}

\* BingoDB.list_signups: the user ids of the event's rows
ListSignups(tbl, b) == {r[2] : r \in {x \in tbl : x[1] = b}}

\* BingoDB.clear_teams
ClearTeams(tbl, b) == {r \in tbl : r[1] # b}

\* BingoDB.set_team: INSERT .. ON CONFLICT(bingo_id, user_id) DO UPDATE
SetTeam(tbl, b, u, tn) == {r \in tbl : ~(r[1] = b /\ r[3] = u)} \cup {<<b, tn, u>>}

\* BingoDB.get_due_actions: the rows with a due status, ORDER BY id DESC
RECURSIVE DueRowsFrom(_, _)
DueRowsFrom(tbl, b) ==
    IF b = 0 THEN <<>>
    ELSE IF tbl[b].status \in DueStatuses
         THEN <<tbl[b]>> \o DueRowsFrom(tbl, b - 1)
         ELSE DueRowsFrom(tbl, b - 1)

GetDueActions(tbl) == DueRowsFrom(tbl, Len(tbl))

\* BingoDB.create_submission
CreateSubmission(tbl, bingo_id, user_id, kind, message_id, status, required) ==
    Append(tbl, [id |-> Len(tbl) + 1,
                 bingo_id |-> bingo_id,
                 user_id |-> user_id,
                 kind |-> kind,
                 message_id |-> message_id,
                 status |-> status,
                 approvals_required |-> required])

\* BingoDB.get_submission_by_message: the rows with that message id
GetSubmissionByMessage(tbl, m) == {tbl[s] : s \in {x \in 1..Len(tbl) : tbl[x].message_id = m}}

\* (mutant) a plain INSERT into a table without its primary key
AddApprovalAgain(tbl, s, u) == tbl (+) SetToBag({<<s, u>>})

\* BingoDB.add_approval: INSERT OR IGNORE under PRIMARY KEY (submission_id, user_id)
AddApproval(tbl, s, u) ==
    IF BagIn(<<s, u>>, tbl) THEN tbl ELSE tbl (+) SetToBag({<<s, u>>})

\* the approvals rows of a submission
ApprovalRows(tbl, s) == {r \in BagToSet(tbl) : r[1] = s}

\* BingoDB.count_approvals: SELECT COUNT(*)
CountApprovals(tbl, s) == BagCardinality([r \in ApprovalRows(tbl, s) |-> tbl[r]])

\* (mutant) a second write of the status takes it back
SetSubmissionStatusFlip(tbl, s, status) ==
    [tbl EXCEPT ![s].status = IF @ = status THEN "pending" ELSE status]

\* BingoDB.set_submission_status
SetSubmissionStatus(tbl, s, status) == [tbl EXCEPT ![s].status = status]

\* (mutant) the WHERE clause without its test of the kind
CountedAnyKind(row, b) == row.bingo_id = b /\ row.status = "approved"

\* BingoDB.leaderboard_counts, the WHERE clause
Counted(row, b) ==
    row.bingo_id = b /\ row.status = "approved" /\ row.kind = "full_tile"

\* ... FROM submissions s JOIN teams t ON t.bingo_id = s.bingo_id AND
\* t.user_id = s.user_id: pairs <<submission id, team_number>>
JoinTeams(subs, tms, b) ==
    {<<x[1], x[2][2]>> :
        x \in {y \in (1..Len(subs)) \X tms :
                  /\ Counted(subs[y[1]], b)
                  /\ y[2][1] = subs[y[1]].bingo_id
                  /\ y[2][3] = subs[y[1]].user_id}}

\* ... GROUP BY t.team_number, COUNT(s.id): rows <<team_number, cnt>>
GroupCounts(joined) ==
    {<<tn, Cardinality({j \in joined : j[2] = tn})>> : tn \in {j[2] : j \in joined}}

\* ... ORDER BY cnt DESC, t.team_number ASC
OrderedBefore(x, y) == x[2] > y[2] \/ (x[2] = y[2] /\ x[1] <= y[1])

RECURSIVE OrderRows(_)
OrderRows(rows) ==
    IF rows = {} THEN <<>>
    ELSE LET first == CHOOSE x \in rows : \A y \in rows : OrderedBefore(x, y)
         IN  <<first>> \o OrderRows(rows \ {first})

\* BingoDB.leaderboard_counts: the list of (team_number, cnt)
LeaderboardCounts(subs, tms, b) == OrderRows(GroupCounts(JoinTeams(subs, tms, b)))

\* ------------------------------------------------------- outbound messages
\* `out` is a bag of <<kind, id>>: "team_ann" / "start_ann" (ann.send called for
\* event id), "board" (ch.send of the board called for event id), "lb_post" (a
\* leaderboard post created for event id), "appr_ann" (ann.send called for
\* submission id), "sub_msg" (a submission message published), "close" (the
\* signup-close block of handle_bingo_state entered for event id); and two
\* marks, set once: "again" (add_approval called for submission id by a user
\* it already records), "late" (an approval signal received for submission id
\* while its stored status was not pending), "denied" (an approval signal
\* returned at line 897)
Emit(o, kind, id) == o (+) SetToBag({<<kind, id>>})

Mark(o, kind, id) == IF BagIn(<<kind, id>>, o) THEN o ELSE Emit(o, kind, id)

Count(o, kind, id) == CopiesIn(<<kind, id>>, o)

\* ------------------------------------------------------------ team drawing
\* random.shuffle(signups): every order of the roster
Shuffles(S) ==
    {q \in [1..Cardinality(S) -> S] : \A i, j \in DOMAIN q : q[i] = q[j] => i = j}

\* (mutant) the team number bumped on i % team_size == 0 instead of (i + 1)
RECURSIVE ChunkTeamsLate(_, _, _, _, _, _)
ChunkTeamsLate(tbl, b, order, i, team_num, team_size) ==
    IF i > Len(order) THEN tbl
    ELSE ChunkTeamsLate(SetTeam(tbl, b, order[i], team_num), b, order, i + 1,
                        IF (i - 1) % team_size = 0 THEN team_num + 1 ELSE team_num,
                        team_size)

\* handle_bingo_state, team_size >= 2: for i, uid in enumerate(signups), with
\* team_num bumped after every team_size-th member (i here is i + 1 there)
RECURSIVE ChunkTeams(_, _, _, _, _, _)
ChunkTeams(tbl, b, order, i, team_num, team_size) ==
    IF i > Len(order) THEN tbl
    ELSE ChunkTeams(SetTeam(tbl, b, order[i], team_num), b, order, i + 1,
                    IF i % team_size = 0 THEN team_num + 1 ELSE team_num,
                    team_size)

\* team_size <= 0: one team for everyone
RECURSIVE OneTeam(_, _, _, _)
OneTeam(tbl, b, order, i) ==
    IF i > Len(order) THEN tbl
    ELSE OneTeam(SetTeam(tbl, b, order[i], 1), b, order, i + 1)

\* (mutant) enumerate(signups) without start=1
RECURSIVE SoloTeamsFromZero(_, _, _, _)
SoloTeamsFromZero(tbl, b, order, i) ==
    IF i > Len(order) THEN tbl
    ELSE SoloTeamsFromZero(SetTeam(tbl, b, order[i], i - 1), b, order, i + 1)

\* team_size == 1: enumerate(signups, start=1)
RECURSIVE SoloTeams(_, _, _, _)
SoloTeams(tbl, b, order, i) ==
    IF i > Len(order) THEN tbl
    ELSE SoloTeams(SetTeam(tbl, b, order[i], i), b, order, i + 1)

\* (mutant) the first branch taken for team_size <= 1
AssignTeamsSoloAsOne(tbl, b, order, team_size) ==
    IF team_size <= 1 THEN OneTeam(tbl, b, order, 1)
    ELSE ChunkTeams(tbl, b, order, 1, 1, team_size)

\* the three branches on team_size
AssignTeams(tbl, b, order, team_size) ==
    IF team_size <= 0 THEN OneTeam(tbl, b, order, 1)
    ELSE IF team_size = 1 THEN SoloTeams(tbl, b, order, 1)
    ELSE ChunkTeams(tbl, b, order, 1, 1, team_size)

\* ------------------------------------------------------- update_leaderboard
\* update_leaderboard returns at once unless the announcements channel is a
\* text channel; otherwise it suspends in fetch_message/edit or in send
LbSuspends(gs) == IsTextChannel(gs.announcements_channel_id)

\* ... after the await: a post was created only when the caller's row had no
\* leaderboard_message_id, and then its id is stored
LbFinishBingos(tbl, o, row, ok) ==
    IF ok /\ row.leaderboard_message_id = NullMsg
    THEN SetLeaderboardMessageId(tbl, row.id,
                                 LbMsg(row.id, Count(o, "lb_post", row.id) + 1))
    ELSE tbl

LbFinishOut(o, row, ok) ==
    IF ok /\ row.leaderboard_message_id = NullMsg
    THEN Emit(o, "lb_post", row.id)
    ELSE o

\* try_send_board reaches ch.send only with a board path and a text channel
BoardSuspends(gs, row) ==
    row.board_image_path # "" /\ IsTextChannel(gs.board_channel_id)

\* ------------------------------------------------------------- bingosetup
IdleSetup == [pc |-> "idle", guild |-> "", gs |-> <<>>, bingo |-> <<>>,
              counts |-> <<>>]

\* lines 515-526: no active bingo in the guild, the wizard starts asking
BingoSetupStart(p, g) ==
    /\ setup[p].pc = "idle"
    /\ ~HasActiveBingo(bingos, g)
    /\ setup' = [setup EXCEPT ![p] = [IdleSetup EXCEPT !.pc = "channels", !.guild = g]]
    /\ UNCHANGED <<now, guild_settings, bingos, signups, teams, submissions,
                   approvals, tick, submit, react, frozen, out>>

\* lines 527-566: the four channel mentions parsed, the guild's row upserted
BingoSetupChannels(p, ch) ==
    /\ setup[p].pc = "channels"
    /\ LET gs == [guild_id |-> setup[p].guild,
                  signup_channel_id |-> ch.signup,
                  submissions_channel_id |-> ch.submissions,
                  announcements_channel_id |-> ch.announcements,
                  board_channel_id |-> ch.board]
       IN  /\ guild_settings' = UpsertGuildSettings(guild_settings, gs)
           /\ setup' = [setup EXCEPT ![p].pc = "params", ![p].gs = <<gs>>]
    /\ UNCHANGED <<now, bingos, signups, teams, submissions, approvals, tick,
                   submit, react, frozen, out>>

\* (mutant) the cancelled wizard takes its channel settings back
BingoSetupCancelRollback(p) ==
    /\ setup[p].pc \in {"channels", "params"}
    /\ setup' = [setup EXCEPT ![p] = IdleSetup]
    /\ guild_settings' = {r \in guild_settings : r.guild_id # setup[p].guild}
    /\ UNCHANGED <<now, bingos, signups, teams, submissions,
                   approvals, tick, submit, react, frozen, out>>

\* a reply that times out or does not parse: "Setup cancelled." and return
BingoSetupCancel(p) ==
    /\ setup[p].pc \in {"channels", "params"}
    /\ setup' = [setup EXCEPT ![p] = IdleSetup]
    /\ UNCHANGED <<now, guild_settings, bingos, signups, teams, submissions,
                   approvals, tick, submit, react, frozen, out>>

\* the leaderboard step of the wizard (line 730) and its return
SetupToLeaderboard(s) ==
    IF LbSuspends(s.gs[1])
    THEN [s EXCEPT !.pc = "lb",
                   !.counts = LeaderboardCounts(submissions, teams, s.bingo[1].id)]
    ELSE IdleSetup

\* lines 568-715: the remaining answers, create_bingo, get_active_bingo, and
\* the signup channel resolved
BingoSetupCreate(p, cfg) ==
    /\ setup[p].pc = "params"
    /\ bingos' = CreateBingo(bingos, setup[p].guild, cfg)
    /\ LET row == GetActiveBingo(bingos', setup[p].guild)
       IN  setup' = [setup EXCEPT ![p] =
                        IF IsTextChannel(setup[p].gs[1].signup_channel_id)
                        THEN [@ EXCEPT !.pc = "post", !.bingo = <<row>>]
                        ELSE IdleSetup]
    /\ UNCHANGED <<now, guild_settings, signups, teams, submissions, approvals,
                   tick, submit, react, frozen, out>>

\* lines 719-727: the signup post sent and its two reactions added, then
\* set_signup_message_id(bingo_id); a send that raises ends the command
BingoSetupPosted(p, ok) ==
    /\ setup[p].pc = "post"
    /\ LET s == setup[p]
           row == s.bingo[1]
       IN  IF ~ok
           THEN /\ setup' = [setup EXCEPT ![p] = IdleSetup]
                /\ UNCHANGED <<bingos, out>>
           ELSE /\ bingos' = SetSignupMessageId(bingos, row.id, SignupMsg(row.id))
                /\ IF row.show_board_when = "signup_created" /\ BoardSuspends(s.gs[1], row)
                   THEN /\ setup' = [setup EXCEPT ![p].pc = "board"]
                        /\ out' = Emit(out, "board", row.id)
                   ELSE /\ setup' = [setup EXCEPT ![p] = SetupToLeaderboard(s)]
                        /\ out' = out
    /\ UNCHANGED <<now, guild_settings, signups, teams, submissions, approvals,
                   tick, submit, react, frozen>>

\* line 727 returned (try_send_board swallows a failed send)
BingoSetupBoard(p) ==
    /\ setup[p].pc = "board"
    /\ setup' = [setup EXCEPT ![p] = SetupToLeaderboard(setup[p])]
    /\ UNCHANGED <<now, guild_settings, bingos, signups, teams, submissions,
                   approvals, tick, submit, react, frozen, out>>

\* line 730 returned, then the reply of line 732
BingoSetupLeaderboard(p, ok) ==
    /\ setup[p].pc = "lb"
    /\ bingos' = LbFinishBingos(bingos, out, setup[p].bingo[1], ok)
    /\ out' = LbFinishOut(out, setup[p].bingo[1], ok)
    /\ setup' = [setup EXCEPT ![p] = IdleSetup]
    /\ UNCHANGED <<now, guild_settings, signups, teams, submissions, approvals,
                   tick, submit, react, frozen>>

\* ------------------------------------------- bingo_tick, handle_bingo_state
IdleTick == [pc |-> "sleep", rows |-> <<>>, cur |-> <<>>, gs |-> <<>>, tnow |-> 0,
             counts |-> <<>>]

\* (mutant) the close block not gated on the status read
CloseDueTimeOnly(row, t) == t >= row.signup_close_utc

\* line 967
CloseDue(row, t) == row.status = "signup_open" /\ t >= row.signup_close_utc

\* (mutant) the start block compared against the signup close time
StartDueAtClose(row, t) ==
    row.status \in {"signup_open", "signup_closed"} /\ t >= row.signup_close_utc

\* (mutant) the start block taken only for a row read as signup_closed
StartDueClosedOnly(row, t) == row.status = "signup_closed" /\ t >= row.start_utc

\* (mutant) the start block not gated on the status read
StartDueTimeOnly(row, t) == t >= row.start_utc

\* line 1015
StartDue(row, t) ==
    row.status \in {"signup_open", "signup_closed"} /\ t >= row.start_utc

\* (mutant) the board sent at the start whatever show_board_when says
RECURSIVE TickStopRevealAtStart(_, _, _, _)
TickStopRevealAtStart(ph, row, gs, t) ==
    CASE ph = "close_board" ->
            IF row.show_board_when = "signups_close" /\ BoardSuspends(gs, row)
            THEN "close_board" ELSE TickStopRevealAtStart("close_lb", row, gs, t)
      [] ph = "close_lb" ->
            IF LbSuspends(gs) THEN "close_lb" ELSE TickStopRevealAtStart("start", row, gs, t)
      [] ph = "start" ->
            IF StartDue(row, t)
            THEN IF IsTextChannel(gs.announcements_channel_id)
                 THEN "start_ann" ELSE TickStopRevealAtStart("start_board", row, gs, t)
            ELSE "next"
      [] ph = "start_board" ->
            IF BoardSuspends(gs, row)
            THEN "start_board" ELSE "next"

\* The await at which handle_bingo_state next suspends when it resumes before
\* line 1008 ("close_board"), 1012 ("close_lb"), 1015 ("start") or 1021
\* ("start_board"); "next" when it returns to the loop of bingo_tick.
RECURSIVE TickStop(_, _, _, _)
TickStop(ph, row, gs, t) ==
    CASE ph = "close_board" ->
            IF row.show_board_when = "signups_close" /\ BoardSuspends(gs, row)
            THEN "close_board" ELSE TickStop("close_lb", row, gs, t)
      [] ph = "close_lb" ->
            IF LbSuspends(gs) THEN "close_lb" ELSE TickStop("start", row, gs, t)
      [] ph = "start" ->
            IF StartDue(row, t)
            THEN IF IsTextChannel(gs.announcements_channel_id)
                 THEN "start_ann" ELSE TickStop("start_board", row, gs, t)
            ELSE "next"
      [] ph = "start_board" ->
            IF row.show_board_when = "bingo_start" /\ BoardSuspends(gs, row)
            THEN "start_board" ELSE "next"

\* handle_bingo_state run from `ph` to its next await: set_status('running')
\* when line 1016 is passed, and the send it then suspends in
TickRun(ph, loc, tbl, o) ==
    LET row == loc.cur[1]
        gs == loc.gs[1]
        stop == TickStop(ph, row, gs, loc.tnow)
        starts == /\ ph # "start_board"
                  /\ stop \in {"start_ann", "start_board", "next"}
                  /\ StartDue(row, loc.tnow)
    IN  /\ tick' = [loc EXCEPT !.pc = stop,
                               !.counts = IF stop = "close_lb"
                                          THEN LeaderboardCounts(submissions, teams, row.id)
                                          ELSE <<>>]
        /\ bingos' = IF starts THEN SetStatus(tbl, row.id, "running") ELSE tbl
        /\ out' = CASE stop = "start_ann" -> Emit(o, "start_ann", row.id)
                    [] stop \in {"close_board", "start_board"} -> Emit(o, "board", row.id)
                    [] OTHER -> o

\* (mutant) the step ends between clear_teams and the set_team loop
CloseSignupsCleared(row, order) ==
    /\ teams' = ClearTeams(teams, row.id)
    /\ frozen' = (row.id :> ListSignups(signups, row.id)) @@ frozen

\* lines 967-990: set_status('signup_closed'), list_signups, shuffle,
\* clear_teams and the set_team loop
CloseSignups(row, order) ==
    /\ teams' = AssignTeams(ClearTeams(teams, row.id), row.id, order, row.team_size)
    /\ frozen' = (row.id :> ListSignups(signups, row.id)) @@ frozen

\* handle_bingo_state(row) for the first of the rows t.rows the loop still
\* has to take, up to its first await
HandleRow(t) ==
    LET row == Head(t.rows)
        found == GetGuildSettings(row.guild_id)
        loc == [t EXCEPT !.rows = Tail(t.rows), !.cur = <<row>>,
                         !.gs = IF found = {} THEN <<>>
                                ELSE <<CHOOSE r \in found : TRUE>>,
                         !.tnow = now]
    IN  IF found = {}
        THEN /\ tick' = loc
             /\ UNCHANGED <<bingos, teams, frozen, out>>
        ELSE IF CloseDue(row, now)
        THEN \E order \in Shuffles(ListSignups(signups, row.id)) :
                /\ CloseSignups(row, order)
                /\ IF IsTextChannel(loc.gs[1].announcements_channel_id)
                   THEN /\ tick' = [loc EXCEPT !.pc = "close_ann"]
                        /\ bingos' = SetStatus(bingos, row.id, "signup_closed")
                        /\ out' = Emit(Emit(out, "close", row.id), "team_ann", row.id)
                   ELSE TickRun("close_board", loc,
                                SetStatus(bingos, row.id, "signup_closed"),
                                Emit(out, "close", row.id))
        ELSE /\ TickRun("start", loc, bingos, out)
             /\ UNCHANGED <<teams, frozen>>

\* bingo_tick: a pass of the loop calls get_due_actions() and, with no await
\* in between, handle_bingo_state for the first row; without rows it is over
BingoTick ==
    /\ tick.pc = "sleep"
    /\ LET rows == GetDueActions(bingos)
       IN  IF rows = <<>>
           THEN /\ tick' = IdleTick
                /\ UNCHANGED <<bingos, teams, frozen, out>>
           ELSE HandleRow([IdleTick EXCEPT !.pc = "next", !.rows = rows])
    /\ UNCHANGED <<now, guild_settings, signups, submissions, approvals, setup,
                   submit, react>>

\* bingo_tick: the rows are exhausted, the task sleeps until the next pass
BingoTickDone ==
    /\ tick.pc = "next"
    /\ tick.rows = <<>>
    /\ tick' = IdleTick
    /\ UNCHANGED <<now, guild_settings, bingos, signups, teams, submissions,
                   approvals, setup, submit, react, frozen, out>>

\* bingo_tick: handle_bingo_state returned or raised, the loop takes the
\* next row
HandleBingoState ==
    /\ tick.pc = "next"
    /\ tick.rows # <<>>
    /\ HandleRow(tick)
    /\ UNCHANGED <<now, guild_settings, signups, submissions, approvals, setup,
                   submit, react>>

\* (mutant) try/except around the whole for loop: the failure ends the pass
TickCloseAnnouncedAbort(ok) ==
    /\ tick.pc = "close_ann"
    /\ IF ok THEN TickRun("close_board", tick, bingos, out)
       ELSE /\ tick' = IdleTick
            /\ UNCHANGED <<bingos, out>>
    /\ UNCHANGED <<now, guild_settings, signups, teams, submissions, approvals,
                   setup, submit, react, frozen>>

\* lines 995-1003: list_teams bucketed by team number, one line per key of
\* sorted(bucket.keys()): pairs <<team_number, members>>
RECURSIVE Sorted(_)
Sorted(S) ==
    IF S = {} THEN <<>>
    ELSE LET least == CHOOSE x \in S : \A y \in S : x <= y
         IN  <<least>> \o Sorted(S \ {least})

TeamAnnouncement(tms, b) ==
    LET rows == {r \in tms : r[1] = b}
        keys == Sorted({r[2] : r \in rows})
    IN  [i \in 1..Len(keys) |-> <<keys[i], {r[3] : r \in {x \in rows : x[2] = keys[i]}}>>]

\* (mutant) the leaderboard published right after the team announcement, the
\* board left out
TickCloseAnnouncedSkipBoard(ok) ==
    /\ tick.pc = "close_ann"
    /\ IF ok THEN TickRun("close_lb", tick, bingos, out)
       ELSE /\ tick' = [tick EXCEPT !.pc = "next"]
            /\ UNCHANGED <<bingos, out>>
    /\ UNCHANGED <<now, guild_settings, signups, teams, submissions, approvals,
                   setup, submit, react, frozen>>

\* (mutant) no try/except in bingo_tick: the exception ends the task
TickCloseAnnouncedStop(ok) ==
    /\ tick.pc = "close_ann"
    /\ IF ok THEN TickRun("close_board", tick, bingos, out)
       ELSE /\ tick' = [tick EXCEPT !.pc = "stopped"]
            /\ UNCHANGED <<bingos, out>>
    /\ UNCHANGED <<now, guild_settings, signups, teams, submissions, approvals,
                   setup, submit, react, frozen>>

\* line 1005 returned, or raised (bingo_tick logs it and takes the next row)
TickCloseAnnounced(ok) ==
    /\ tick.pc = "close_ann"
    /\ IF ok THEN TickRun("close_board", tick, bingos, out)
       ELSE /\ tick' = [tick EXCEPT !.pc = "next"]
            /\ UNCHANGED <<bingos, out>>
    /\ UNCHANGED <<now, guild_settings, signups, teams, submissions, approvals,
                   setup, submit, react, frozen>>

\* line 1009 returned
TickCloseBoard ==
    /\ tick.pc = "close_board"
    /\ TickRun("close_lb", tick, bingos, out)
    /\ UNCHANGED <<now, guild_settings, signups, teams, submissions, approvals,
                   setup, submit, react, frozen>>

\* line 1012 returned
TickCloseLeaderboard(ok) ==
    /\ tick.pc = "close_lb"
    /\ TickRun("start", tick, LbFinishBingos(bingos, out, tick.cur[1], ok),
               LbFinishOut(out, tick.cur[1], ok))
    /\ UNCHANGED <<now, guild_settings, signups, teams, submissions, approvals,
                   setup, submit, react, frozen>>

\* line 1019 returned, or raised
TickStartAnnounced(ok) ==
    /\ tick.pc = "start_ann"
    /\ IF ok THEN TickRun("start_board", tick, bingos, out)
       ELSE /\ tick' = [tick EXCEPT !.pc = "next"]
            /\ UNCHANGED <<bingos, out>>
    /\ UNCHANGED <<now, guild_settings, signups, teams, submissions, approvals,
                   setup, submit, react, frozen>>

\* line 1022 returned
TickStartBoard ==
    /\ tick.pc = "start_board"
    /\ tick' = [tick EXCEPT !.pc = "next"]
    /\ UNCHANGED <<now, guild_settings, bingos, signups, teams, submissions,
                   approvals, setup, submit, react, frozen, out>>

\* the wall clock
Advance ==
    /\ now < MaxTime
    /\ now' = now + 1
    /\ UNCHANGED <<guild_settings, bingos, signups, teams, submissions, approvals,
                   setup, tick, submit, react, frozen, out>>

\* -------------------------------------------------------- handle_submission
IdleSubmit == [pc |-> "idle", user |-> 0, kind |-> "", gs |-> <<>>,
               bingo |-> <<>>, msg |-> NullMsg, counts |-> <<>>]

\* (mutant) every submission created pending
InitialStatusPending(row) == "pending"

\* line 808
InitialStatus(row) == IF row.approvals_mode = "none" THEN "approved" ELSE "pending"

\* lines 751-811: the active bingo and the guild's settings read; the kind
\* asked and the attachment saved; the submission embed about to be sent
HandleSubmission(p, g, u, kind, cap) ==
    /\ submit[p].pc = "idle"
    /\ Count(out, "sub_msg", 0)
         + Cardinality({q \in DOMAIN submit : submit[q].pc = "send"}) < cap
    /\ HasActiveBingo(bingos, g)
    /\ GetGuildSettings(g) # {}
    /\ LET gs == CHOOSE r \in GetGuildSettings(g) : TRUE
       IN  /\ IsTextChannel(gs.submissions_channel_id)
           /\ submit' = [submit EXCEPT ![p] =
                  [IdleSubmit EXCEPT !.pc = "send", !.user = u, !.kind = kind,
                                     !.gs = <<gs>>,
                                     !.bingo = <<GetActiveBingo(bingos, g)>>]]
    /\ UNCHANGED <<now, guild_settings, bingos, signups, teams, submissions,
                   approvals, setup, tick, react, frozen, out>>

\* line 811 returned: the message is published (or the send raised)
SubmitPublished(p, ok) ==
    /\ submit[p].pc = "send"
    /\ IF ok
       THEN /\ out' = Emit(out, "sub_msg", 0)
            /\ submit' = [submit EXCEPT ![p].pc = "react",
                                        ![p].msg = SubMsg(Count(out, "sub_msg", 0) + 1)]
       ELSE /\ out' = out
            /\ submit' = [submit EXCEPT ![p] = IdleSubmit]
    /\ UNCHANGED <<now, guild_settings, bingos, signups, teams, submissions,
                   approvals, setup, tick, react, frozen>>

\* lines 812-830: the reactions added (and the receipt sent), then
\* create_submission, then update_leaderboard when auto-approved
SubmitCreate(p, ok) ==
    /\ submit[p].pc = "react"
    /\ LET s == submit[p]
           row == s.bingo[1]
       IN  IF ok
           THEN /\ submissions' = CreateSubmission(submissions, row.id, s.user, s.kind,
                                                   s.msg, InitialStatus(row),
                                                   row.approvals_required)
                /\ submit' = [submit EXCEPT ![p] =
                       IF InitialStatus(row) = "approved" /\ LbSuspends(s.gs[1])
                       THEN [s EXCEPT !.pc = "lb",
                                      !.counts = LeaderboardCounts(submissions', teams, row.id)]
                       ELSE IdleSubmit]
           ELSE /\ submissions' = submissions
                /\ submit' = [submit EXCEPT ![p] = IdleSubmit]
    /\ UNCHANGED <<now, guild_settings, bingos, signups, teams, approvals, setup,
                   tick, react, frozen, out>>

\* line 830 returned
SubmitLeaderboard(p, ok) ==
    /\ submit[p].pc = "lb"
    /\ bingos' = LbFinishBingos(bingos, out, submit[p].bingo[1], ok)
    /\ out' = LbFinishOut(out, submit[p].bingo[1], ok)
    /\ submit' = [submit EXCEPT ![p] = IdleSubmit]
    /\ UNCHANGED <<now, guild_settings, signups, teams, submissions, approvals,
                   setup, tick, react, frozen>>

\* ------------------------------------------------------ on_raw_reaction_add
IdleReact == [pc |-> "idle", guild |-> "", user |-> 0, gs |-> <<>>,
              bingo |-> <<>>, sub |-> <<>>, counts |-> <<>>]

\* (mutant) any resolved member may approve
AllowedAnyMember(approvals_mode, member, u) ==
    approvals_mode \in {"admin", "nonteammate"} /\ member

\* (mutant) nonteammate enforced as the name reads: nobody is admitted
AllowedAdminOnly(approvals_mode, member, u) ==
    approvals_mode = "admin" /\ member /\ IsAdmin(u)

\* lines 885-894
Allowed(approvals_mode, member, u) ==
    IF approvals_mode = "admin" THEN member /\ IsAdmin(u)
    ELSE IF approvals_mode = "nonteammate" THEN member /\ IsAdmin(u)
    ELSE FALSE

\* lines 876-913 from the resolved member to the next await: the approval
\* inserted and counted, the status set when the quorum is met
ApproveFrom(p, loc, member, o) ==
    LET sub == loc.sub[1]
        gs == loc.gs[1]
        added == AddApproval(approvals, sub.id, loc.user)
        quorum == CountApprovals(added, sub.id) >= sub.approvals_required
        called == IF BagIn(<<sub.id, loc.user>>, approvals)
                  THEN Mark(o, "again", sub.id) ELSE o
    IN  IF ~Allowed(loc.bingo[1].approvals_mode, member, loc.user)
        THEN /\ react' = [react EXCEPT ![p] = IdleReact]
             /\ out' = Mark(o, "denied", 0)
             /\ UNCHANGED <<approvals, submissions>>
        ELSE /\ approvals' = added
             /\ IF ~quorum
                THEN /\ react' = [react EXCEPT ![p] = IdleReact]
                     /\ submissions' = submissions
                     /\ out' = called
                ELSE /\ submissions' = SetSubmissionStatus(submissions, sub.id, "approved")
                     /\ IF IsTextChannel(gs.announcements_channel_id)
                        THEN /\ react' = [react EXCEPT ![p] = [loc EXCEPT !.pc = "announce"]]
                             /\ out' = Emit(called, "appr_ann", sub.id)
                        ELSE \* update_leaderboard returns at once without the channel
                             /\ react' = [react EXCEPT ![p] = IdleReact]
                             /\ out' = called

\* (mutant) the handler goes on whatever the stored status
StillPendingAnyStatus(sub) == TRUE

\* line 873
StillPending(sub) == sub.status = "pending"

\* lines 839-881: a reaction added by user u to message m, up to the first
\* await (fetch_member, when the member is not cached)
OnRawReactionAdd(p, g, u, m, emoji, cached) ==
    /\ react[p].pc = "idle"
    /\ LET found == GetGuildSettings(g)
           bingo == GetActiveBingo(bingos, g)
           subs == GetSubmissionByMessage(submissions, m)
       IN  IF found = {} \/ ~HasActiveBingo(bingos, g)
           THEN UNCHANGED <<signups, approvals, submissions, react, out>>
           ELSE IF bingo.signup_message_id # NullMsg /\ m = bingo.signup_message_id
           THEN /\ signups' = IF emoji = SIGNUP_EMOJI THEN AddSignup(signups, bingo.id, u)
                              ELSE IF emoji = UNSIGN_EMOJI THEN RemoveSignup(signups, bingo.id, u)
                              ELSE signups
                /\ UNCHANGED <<approvals, submissions, react, out>>
           ELSE IF emoji # APPROVE_EMOJI \/ subs = {}
           THEN UNCHANGED <<signups, approvals, submissions, react, out>>
           ELSE LET sub == CHOOSE r \in subs : TRUE
                    loc == [IdleReact EXCEPT !.guild = g, !.user = u,
                                             !.gs = <<CHOOSE r \in found : TRUE>>,
                                             !.bingo = <<bingo>>, !.sub = <<sub>>]
                    late == IF sub.status = "pending" THEN out
                            ELSE Mark(out, "late", sub.id)
                IN  IF ~StillPending(sub)
                    THEN /\ out' = late
                         /\ UNCHANGED <<signups, approvals, submissions, react>>
                    ELSE IF cached
                    THEN /\ ApproveFrom(p, loc, TRUE, late)
                         /\ UNCHANGED signups
                    ELSE /\ react' = [react EXCEPT ![p] = [loc EXCEPT !.pc = "member"]]
                         /\ out' = late
                         /\ UNCHANGED <<signups, approvals, submissions>>
    /\ UNCHANGED <<now, guild_settings, bingos, teams, setup, tick, submit, frozen>>

\* line 881 returned the member, or raised (member = None)
ReactMember(p, ok) ==
    /\ react[p].pc = "member"
    /\ ApproveFrom(p, react[p], ok, out)
    /\ UNCHANGED <<now, guild_settings, bingos, signups, teams, setup, tick,
                   submit, frozen>>

\* (mutant) the approval taken back when its announcement raises
ReactAnnouncedRollback(p, ok) ==
    /\ react[p].pc = "announce"
    /\ LET loc == react[p]
       IN  /\ react' = [react EXCEPT ![p] =
                  IF ok /\ HasActiveBingo(bingos, loc.guild) /\ LbSuspends(loc.gs[1])
                  THEN [loc EXCEPT !.pc = "lb",
                                   !.bingo = <<GetActiveBingo(bingos, loc.guild)>>,
                                   !.counts = LeaderboardCounts(submissions, teams,
                                                  GetActiveBingo(bingos, loc.guild).id)]
                  ELSE IdleReact]
           /\ submissions' = IF ok THEN submissions
                             ELSE SetSubmissionStatus(submissions, loc.sub[1].id, "pending")
    /\ UNCHANGED <<now, guild_settings, bingos, signups, teams,
                   approvals, setup, tick, submit, frozen, out>>

\* line 908 returned, then get_active_bingo and update_leaderboard up to its
\* await; or line 908 raised
ReactAnnounced(p, ok) ==
    /\ react[p].pc = "announce"
    /\ LET loc == react[p]
       IN  react' = [react EXCEPT ![p] =
               IF ok /\ HasActiveBingo(bingos, loc.guild) /\ LbSuspends(loc.gs[1])
               THEN [loc EXCEPT !.pc = "lb",
                                !.bingo = <<GetActiveBingo(bingos, loc.guild)>>,
                                !.counts = LeaderboardCounts(submissions, teams,
                                               GetActiveBingo(bingos, loc.guild).id)]
               ELSE IdleReact]
    /\ UNCHANGED <<now, guild_settings, bingos, signups, teams, submissions,
                   approvals, setup, tick, submit, frozen, out>>

\* line 913 returned
ReactLeaderboard(p, ok) ==
    /\ react[p].pc = "lb"
    /\ bingos' = LbFinishBingos(bingos, out, react[p].bingo[1], ok)
    /\ out' = LbFinishOut(out, react[p].bingo[1], ok)
    /\ react' = [react EXCEPT ![p] = IdleReact]
    /\ UNCHANGED <<now, guild_settings, signups, teams, submissions, approvals,
                   setup, tick, submit, frozen>>

\* on_raw_reaction_remove: the signup reaction taken back from the signup post
OnRawReactionRemove(g, u, m, emoji) ==
    /\ HasActiveBingo(bingos, g)
    /\ LET bingo == GetActiveBingo(bingos, g)
       IN  /\ bingo.signup_message_id # NullMsg
           /\ m = bingo.signup_message_id
           /\ emoji = SIGNUP_EMOJI
           /\ signups' = RemoveSignup(signups, bingo.id, u)
    /\ UNCHANGED <<now, guild_settings, bingos, teams, submissions, approvals,
                   setup, tick, submit, react, frozen, out>>

\* ------------------------------------------------------------ specification
\* The state after `db = BingoDB(DB_PATH)` on an empty database and on_ready
Init ==
    /\ now = 0
    /\ guild_settings = {}
    /\ bingos = <<>>
    /\ signups = {}
    /\ teams = {}
    /\ submissions = <<>>
    /\ approvals = EmptyBag
    /\ setup = [p \in Setups |-> IdleSetup]
    /\ tick = IdleTick
    /\ submit = [p \in Submitters |-> IdleSubmit]
    /\ react = [p \in Reactors |-> IdleReact]
    /\ frozen = <<>>
    /\ out = EmptyBag

\* The scheduler's steps over a store that holds one event: the pass is over
\* after its first row
TickOne ==
    \/ BingoTick
    \/ BingoTickDone
    \/ \E ok \in BOOLEAN : TickCloseAnnounced(ok)
    \/ TickCloseBoard
    \/ \E ok \in BOOLEAN : TickCloseLeaderboard(ok)
    \/ \E ok \in BOOLEAN : TickStartAnnounced(ok)
    \/ TickStartBoard

\* The scheduler's steps
TickNext ==
    \/ TickOne
    \/ HandleBingoState

\* The wizard's steps after its first question, for coroutine p
SetupSteps(p) ==
    \/ BingoSetupCancel(p)
    \/ \E ok \in BOOLEAN : BingoSetupPosted(p, ok)
    \/ BingoSetupBoard(p)
    \/ \E ok \in BOOLEAN : BingoSetupLeaderboard(p, ok)

\* Lifecycle: one operator sets up an event, two users join and leave, the
\* scheduler scans while the clock runs.  Answers of the wizard:
LifeChannels ==
    [signup : TextChannels, submissions : TextChannels,
     announcements : ChannelIds, board : TextChannels]

LifeConfigs ==
    [team_size : {1, 2}, start_utc : 1..MaxTime, close_hours : {0, 1},
     end_utc : {{1}}, show_board_when : ShowBoardChoices,
     approvals_mode : {"none"}, approvals_required : {0},
     board_image_path : {"board.png"}]

Joiners == {1, 2}

LifeNext ==
    \/ BingoSetupStart(1, HomeGuild)
    \/ \E ch \in LifeChannels : BingoSetupChannels(1, ch)
    \/ \E cfg \in LifeConfigs : BingoSetupCreate(1, cfg)
    \/ SetupSteps(1)
    \/ \E u \in Joiners, b \in BingoIds, e \in {SIGNUP_EMOJI, UNSIGN_EMOJI} :
          OnRawReactionAdd(1, HomeGuild, u, SignupMsg(b), e, TRUE)
    \/ \E u \in Joiners, b \in BingoIds :
          OnRawReactionRemove(HomeGuild, u, SignupMsg(b), SIGNUP_EMOJI)
    \/ TickOne
    \/ Advance

SpecLife == Init /\ [][LifeNext]_vars

\* Team drawing: the store as a finished wizard and the signup reactions leave
\* it (one event, signups open, any roster, the leaderboard not yet posted),
\* then the scheduler alone.
TeamsChannels ==
    [signup : TextChannels, submissions : TextChannels,
     announcements : ChannelIds, board : TextChannels]

TeamsConfigs ==
    [team_size : 0..MaxTeamSize, start_utc : {1}, close_hours : {0, 1},
     end_utc : {{}}, show_board_when : ShowBoardChoices,
     approvals_mode : {"none"}, approvals_required : {0},
     board_image_path : {"board.png"}]

TeamsInit ==
    /\ now = 0
    /\ \E ch \in TeamsChannels :
          guild_settings = {[guild_id |-> HomeGuild,
                             signup_channel_id |-> ch.signup,
                             submissions_channel_id |-> ch.submissions,
                             announcements_channel_id |-> ch.announcements,
                             board_channel_id |-> ch.board]}
    /\ \E cfg \in TeamsConfigs :
          bingos = SetSignupMessageId(CreateBingo(<<>>, HomeGuild, cfg), 1, SignupMsg(1))
    /\ \E roster \in SUBSET Users : signups = {1} \X roster
    /\ teams = {}
    /\ submissions = <<>>
    /\ approvals = EmptyBag
    /\ setup = [p \in Setups |-> IdleSetup]
    /\ tick = IdleTick
    /\ submit = [p \in Submitters |-> IdleSubmit]
    /\ react = [p \in Reactors |-> IdleReact]
    /\ frozen = <<>>
    /\ out = EmptyBag

TeamsNext ==
    \/ TickOne
    \/ Advance

SpecTeams == TeamsInit /\ [][TeamsNext]_vars

\* Setup races: two operators run the wizard, in either guild.
RaceChannels ==
    [signup : ChannelIds, submissions : TextChannels,
     announcements : TextChannels, board : TextChannels]

RaceConfigs ==
    [team_size : {0}, start_utc : {1}, close_hours : {0},
     end_utc : {{}}, show_board_when : {"signup_created", "bingo_start"},
     approvals_mode : {"none"}, approvals_required : {0},
     board_image_path : {"board.png"}]

RaceNext ==
    \/ \E p \in Setups, g \in Guilds : BingoSetupStart(p, g)
    \/ \E p \in Setups, ch \in RaceChannels : BingoSetupChannels(p, ch)
    \/ \E p \in Setups, cfg \in RaceConfigs : BingoSetupCreate(p, cfg)
    \/ \E p \in Setups : SetupSteps(p)

SpecRace == Init /\ [][RaceNext]_vars

\* Approvals: an event is set up, an author submits, users react to the
\* submission messages; two reaction handlers may be in flight.
ApprConfigs ==
    {cfg \in [team_size : {0}, start_utc : {1}, close_hours : {0},
              end_utc : {{}}, show_board_when : {"signup_created"},
              approvals_mode : ApprovalModes, approvals_required : 0..MaxRequired,
              board_image_path : {"board.png"}] :
        \* lines 664-673: 0 without approvals, else the number asked (1..20)
        (cfg.approvals_mode = "none") <=> (cfg.approvals_required = 0)}

\* the store a completed wizard leaves: settings saved, the event created,
\* its signup message and its leaderboard message recorded
ApprInit ==
    /\ now = 0
    /\ guild_settings = {[guild_id |-> HomeGuild,
                          signup_channel_id |-> "c_text",
                          submissions_channel_id |-> "c_text",
                          announcements_channel_id |-> "c_text",
                          board_channel_id |-> "c_text"]}
    /\ \E cfg \in ApprConfigs :
          bingos = SetLeaderboardMessageId(
                       SetSignupMessageId(CreateBingo(<<>>, HomeGuild, cfg), 1, SignupMsg(1)),
                       1, LbMsg(1, 1))
    /\ signups = {}
    /\ teams = {}
    /\ submissions = <<>>
    /\ approvals = EmptyBag
    /\ setup = [p \in Setups |-> IdleSetup]
    /\ tick = IdleTick
    /\ submit = [p \in Submitters |-> IdleSubmit]
    /\ react = [p \in Reactors |-> IdleReact]
    /\ frozen = <<>>
    /\ out = Emit(EmptyBag, "lb_post", 1)

\* the submission messages published so far
SubMessages == {SubMsg(k) : k \in 1..Count(out, "sub_msg", 0)}

ApprNext ==
    \/ HandleSubmission(1, HomeGuild, 1, "full_tile", MaxSubs)
    \/ \E ok \in BOOLEAN : SubmitPublished(1, ok)
    \/ \E ok \in BOOLEAN : SubmitCreate(1, ok)
    \/ \E ok \in BOOLEAN : SubmitLeaderboard(1, ok)
    \/ \E p \in Reactors, u \in Users, m \in SubMessages, cached \in BOOLEAN :
          OnRawReactionAdd(p, HomeGuild, u, m, APPROVE_EMOJI, cached)
    \/ \E p \in Reactors, ok \in BOOLEAN : ReactMember(p, ok)
    \/ \E p \in Reactors, ok \in BOOLEAN : ReactAnnounced(p, ok)
    \/ \E p \in Reactors, ok \in BOOLEAN : ReactLeaderboard(p, ok)

SpecAppr == ApprInit /\ [][ApprNext]_vars

\* Leaderboard: the store after the wizard, the signups of users 1 and 2 and
\* the close and start scans (the event running, its teams drawn); then
\* users 1..3 submit, and an admin approves pending submissions.
BoardConfigs ==
    {cfg \in [team_size : {1, 2}, start_utc : {0}, close_hours : {0},
              end_utc : {{}}, show_board_when : {"signup_created"},
              approvals_mode : {"none", "admin"}, approvals_required : {0, 1},
              board_image_path : {"board.png"}] :
        (cfg.approvals_mode = "none") <=> (cfg.approvals_required = 0)}

BoardRoster == {1, 2}
\* what is submitted: full tiles by both members and by user 3, who has no
\* team, and a progress picture by user 1
BoardEntries ==
    {<<1, "full_tile">>, <<1, "progress">>, <<2, "full_tile">>, <<3, "full_tile">>}

BoardInit ==
    /\ now = 0
    /\ guild_settings = {[guild_id |-> HomeGuild,
                          signup_channel_id |-> "c_text",
                          submissions_channel_id |-> "c_text",
                          announcements_channel_id |-> "c_text",
                          board_channel_id |-> "c_text"]}
    /\ \E cfg \in BoardConfigs, order \in Shuffles(BoardRoster) :
          /\ bingos = SetStatus(
                          SetLeaderboardMessageId(
                              SetSignupMessageId(CreateBingo(<<>>, HomeGuild, cfg),
                                                 1, SignupMsg(1)),
                              1, LbMsg(1, 1)),
                          1, "running")
          /\ teams = AssignTeams({}, 1, order, cfg.team_size)
    /\ signups = {1} \X BoardRoster
    /\ frozen = (1 :> BoardRoster)
    /\ submissions = <<>>
    /\ approvals = EmptyBag
    /\ setup = [p \in Setups |-> IdleSetup]
    /\ tick = IdleTick
    /\ submit = [p \in Submitters |-> IdleSubmit]
    /\ react = [p \in Reactors |-> IdleReact]
    /\ out = SetToBag({<<"board", 1>>, <<"lb_post", 1>>, <<"close", 1>>,
                       <<"team_ann", 1>>, <<"start_ann", 1>>})

\* the messages of the submissions still pending
PendingMessages ==
    {submissions[s].message_id : s \in {x \in SubIds : submissions[x].status = "pending"}}

BoardNext ==
    \/ \E e \in BoardEntries : HandleSubmission(1, HomeGuild, e[1], e[2], MaxSubs + 3)
    \/ \E ok \in BOOLEAN : SubmitPublished(1, ok)
    \/ \E ok \in BOOLEAN : SubmitCreate(1, ok)
    \/ \E ok \in BOOLEAN : SubmitLeaderboard(1, ok)
    \/ \E m \in PendingMessages : OnRawReactionAdd(1, HomeGuild, 2, m, APPROVE_EMOJI, TRUE)
    \/ \E ok \in BOOLEAN : ReactAnnounced(1, ok)
    \/ \E ok \in BOOLEAN : ReactLeaderboard(1, ok)

SpecBoard == BoardInit /\ [][BoardNext]_vars

\* ------------------------------------------------------------------ claims
\* the users holding a teams row of event b, its team numbers, and one team
TeamRows(b) == {r \in teams : r[1] = b}
TeamUsers(b) == {r[3] : r \in TeamRows(b)}
TeamNumbers(b) == {r[2] : r \in TeamRows(b)}
TeamMembers(b, tn) == {r[3] : r \in {x \in TeamRows(b) : x[2] = tn}}

\* every user of the roster frozen at close holds exactly one row, nobody else
EachOnce(b) ==
    /\ TeamUsers(b) = frozen[b]
    /\ Cardinality(TeamRows(b)) = Cardinality(frozen[b])

\* C1: over any sequence of scans the signup-close block (status write, team
\* assignment, team announcement) runs exactly once for an event that has left
\* signup_open and never for one that has not; a later scan, which reads a
\* status other than signup_open, does not run it again.
C1_CloseOnce ==
    \A b \in BingoIds :
        LET gs == CHOOSE r \in GetGuildSettings(bingos[b].guild_id) : TRUE
        IN  /\ Count(out, "close", b) = IF bingos[b].status = "signup_open" THEN 0 ELSE 1
            /\ Count(out, "team_ann", b) =
                  IF bingos[b].status # "signup_open"
                     /\ IsTextChannel(gs.announcements_channel_id)
                  THEN 1 ELSE 0

\* a second scan is handling the event, having read status signup_closed
\* after the close time
C1_Witness ==
    /\ tick.cur # <<>>
    /\ tick.cur[1].status = "signup_closed"
    /\ tick.tnow >= tick.cur[1].signup_close_utc
    /\ Count(out, "close", tick.cur[1].id) = 1
    /\ Count(out, "team_ann", tick.cur[1].id) = 1

\* ceil(n / d)
CeilDiv(n, d) == (n + d - 1) \div d

\* C5: for a roster of N users and team_size >= 2 the teams written at signup
\* close are numbered exactly 1..ceil(N/team_size), every user of the roster
\* is in exactly one, every team but the last has team_size members and the
\* last holds the remainder.
C5_ChunkedTeams ==
    \A b \in DOMAIN frozen :
        LET ts == bingos[b].team_size
            N == Cardinality(frozen[b])
            k == CeilDiv(N, ts)
        IN  ts >= 2 =>
               /\ TeamNumbers(b) = 1..k
               /\ EachOnce(b)
               /\ \A tn \in 1..k :
                     Cardinality(TeamMembers(b, tn)) =
                        IF tn < k THEN ts ELSE N - (k - 1) * ts

\* three users drawn into teams of two: a full team and a remainder
C5_Witness ==
    \E b \in DOMAIN frozen :
        /\ bingos[b].team_size = 2
        /\ Cardinality(frozen[b]) = 3
        /\ TeamNumbers(b) = {1, 2}
        /\ Cardinality(TeamMembers(b, 2)) = 1

\* C6: team_size 0 puts the whole roster in team 1; team_size 1 gives N teams
\* of one member, numbered 1..N, every user of the roster in exactly one.
C6_OneTeamAndSolo ==
    \A b \in DOMAIN frozen :
        LET ts == bingos[b].team_size
            N == Cardinality(frozen[b])
        IN  /\ ts = 0 => TeamRows(b) = {<<b, 1, u>> : u \in frozen[b]}
            /\ ts = 1 => /\ TeamNumbers(b) = 1..N
                         /\ EachOnce(b)
                         /\ \A tn \in 1..N : Cardinality(TeamMembers(b, tn)) = 1

\* both cases drawn with the whole user set signed up
C6_Witness ==
    \E b \in DOMAIN frozen :
        /\ bingos[b].team_size = 1
        /\ frozen[b] = Users
        /\ TeamNumbers(b) = 1..MaxUsers

\* C8: a scan that reads the event signup_open with signup_close <= now <
\* start, the guild's settings present and the announcements channel a text
\* channel, leaves it signup_closed, with a teams row for exactly the users
\* signed up when it was scanned and one team announcement sent.
C8_OneScanCloses ==
    (/\ tick.pc = "next"
     /\ tick.cur # <<>>
     /\ tick.gs # <<>>
     /\ tick.cur[1].status = "signup_open"
     /\ tick.cur[1].signup_close_utc <= tick.tnow
     /\ tick.tnow < tick.cur[1].start_utc
     /\ IsTextChannel(tick.gs[1].announcements_channel_id))
    => LET b == tick.cur[1].id
       IN  /\ bingos[b].status = "signup_closed"
           /\ b \in DOMAIN frozen
           /\ EachOnce(b)
           /\ Count(out, "team_ann", b) = 1

\* such a scan has returned, with both users drawn into teams, while one of
\* them has left the roster since
C8_Witness ==
    /\ tick.pc = "next"
    /\ tick.cur # <<>>
    /\ tick.cur[1].status = "signup_open"
    /\ tick.cur[1].signup_close_utc <= tick.tnow
    /\ tick.tnow < tick.cur[1].start_utc
    /\ IsTextChannel(tick.gs[1].announcements_channel_id)
    /\ TeamUsers(tick.cur[1].id) = Joiners
    /\ ListSignups(signups, tick.cur[1].id) # Joiners

\* the order of the statuses
StatusRank(status) ==
    CASE status = "setup" -> 0
      [] status = "signup_open" -> 1
      [] status = "signup_closed" -> 2
      [] status = "running" -> 3
      [] status = "ended" -> 4

\* C9: every step leaves each event's status where it is or moves it forward
\* along signup_open -> signup_closed -> running; a new event starts
\* signup_open; no event is ever ended, whatever its end time.
C9_ForwardOnly ==
    [][\A b \in 1..Len(bingos') :
          /\ bingos'[b].status \in {"signup_open", "signup_closed", "running"}
          /\ IF b <= Len(bingos)
             THEN StatusRank(bingos'[b].status) >= StatusRank(bingos[b].status)
             ELSE bingos'[b].status = "signup_open"]_vars

\* an event is running although its end time has passed
C9_Witness ==
    \E b \in BingoIds :
        /\ bingos[b].status = "running"
        /\ \E t \in bingos[b].end_utc : now > t

\* the users the approvals table records for submission s
Approvers(s) == {u \in Users : BagIn(<<s, u>>, approvals)}

\* C2: a submission's stored status is approved exactly when the number of
\* distinct eligible approvers recorded for it is at least its
\* approvals_required; every approver is recorded once, so a second signal
\* from a recorded approver leaves the count where it was.
C2_ApprovedIffQuorum ==
    \A s \in SubIds :
        /\ (submissions[s].status = "approved")
             <=> (Cardinality(Approvers(s)) >= submissions[s].approvals_required)
        /\ CountApprovals(approvals, s) = Cardinality(Approvers(s))
        /\ \A u \in Approvers(s) : IsAdmin(u)

\* a recorded approver signalled again: one row, the quorum of two not met
C2_Witness ==
    \E s \in SubIds :
        /\ Count(out, "again", s) = 1
        /\ CountApprovals(approvals, s) = 1
        /\ submissions[s].approvals_required >= 2
        /\ submissions[s].status = "pending"

\* C3: an approval signal handled when the submission's stored status is
\* approved leaves the submissions and approvals tables as they are, starts
\* no handler work and announces nothing.
C3_ApprovedIsFinal ==
    [][\A s \in SubIds :
          (/\ submissions[s].status = "approved"
           /\ \E p \in Reactors, u \in Users, cached \in BOOLEAN :
                 OnRawReactionAdd(p, HomeGuild, u, submissions[s].message_id,
                                  APPROVE_EMOJI, cached))
          => /\ submissions' = submissions
             /\ approvals' = approvals
             /\ react' = react
             /\ Count(out', "appr_ann", s) = Count(out, "appr_ann", s)]_vars

\* approved by quorum and announced once, and a later signal was received
C3_Witness ==
    \E s \in SubIds :
        /\ submissions[s].status = "approved"
        /\ submissions[s].approvals_required >= 1
        /\ Count(out, "late", s) = 1
        /\ Count(out, "appr_ann", s) = 1
        /\ \A p \in Reactors : react[p].pc = "idle"

\* C4 (refuted): each guild has at most one event whose status is signup_open,
\* signup_closed or running, two overlapping bingosetup wizards included.
C4_OneActivePerGroup ==
    \A g \in Guilds : Cardinality(ActiveBingos(bingos, g)) <= 1

\* C10: a submission row is created pending or approved, and the only change
\* of a stored status is pending -> approved; rejected is never written.
C10_PendingToApprovedOnly ==
    [][\A s \in 1..Len(submissions') :
          /\ submissions'[s].status \in {"pending", "approved"}
          /\ s <= Len(submissions) =>
                \/ submissions'[s].status = submissions[s].status
                \/ /\ submissions[s].status = "pending"
                   /\ submissions'[s].status = "approved"]_vars

\* a submission created pending has been approved by its quorum
C10_Witness ==
    \E s \in SubIds :
        /\ submissions[s].status = "approved"
        /\ submissions[s].approvals_required >= 1
        /\ CountApprovals(approvals, s) >= submissions[s].approvals_required

\* the submissions of event b that count for team tn: approved, full_tile, and
\* submitted by a member of the team
TeamTiles(b, tn) ==
    {s \in SubIds : /\ submissions[s].bingo_id = b
                    /\ submissions[s].status = "approved"
                    /\ submissions[s].kind = "full_tile"
                    /\ submissions[s].user_id \in TeamMembers(b, tn)}

\* C7: whatever the store holds, the leaderboard of an event has one line for
\* each team with at least one approved full_tile submission by a member, the
\* line carries the number of those submissions (a team without one has no
\* line; progress, pending and teamless users' submissions count for nothing),
\* and the lines are ordered by count descending, then team number ascending.
C7_LeaderboardCounts ==
    \A b \in BingoIds :
        LET L == LeaderboardCounts(submissions, teams, b)
        IN  /\ \A i \in DOMAIN L :
                  /\ L[i][1] \in TeamNumbers(b)
                  /\ L[i][2] = Cardinality(TeamTiles(b, L[i][1]))
                  /\ L[i][2] >= 1
            /\ \A tn \in TeamNumbers(b) :
                  TeamTiles(b, tn) # {} => \E i \in DOMAIN L : L[i][1] = tn
            /\ \A i, j \in DOMAIN L : L[i][1] = L[j][1] => i = j
            /\ \A i \in DOMAIN L : i < Len(L) =>
                  \/ L[i][2] > L[i + 1][2]
                  \/ L[i][2] = L[i + 1][2] /\ L[i][1] < L[i + 1][1]

\* a refresh in flight computed two lines with team 2, the higher count, ahead
\* of team 1, while the store holds a submission that counts for no team
C7_Witness ==
    \E p \in Submitters \cup Reactors :
        LET loc == IF p \in Submitters /\ submit[p].pc = "lb" THEN submit[p] ELSE react[p]
        IN  /\ loc.pc = "lb"
            /\ loc.counts = LeaderboardCounts(submissions, teams, 1)
            /\ Len(loc.counts) = 2
            /\ loc.counts[1][1] = 2
            /\ loc.counts[1][2] > loc.counts[2][2]
            /\ \E s \in SubIds : \A tn \in TeamNumbers(1) : s \notin TeamTiles(1, tn)

\* C11: the row create_submission inserts is approved when the event's policy
\* is none, and the handler goes on to update_leaderboard with the counts of
\* the store holding that row; under admin or nonteammate the row is pending,
\* carries the event's approvals_required, and the handler ends without a
\* leaderboard refresh.
C11_CreatedByPolicy ==
    [][\A p \in Submitters :
          (submit[p].pc = "react" /\ Len(submissions') = Len(submissions) + 1)
          => LET row == submissions'[Len(submissions')]
                 ev == bingos[row.bingo_id]
             IN  /\ ev.approvals_mode = "none" =>
                       /\ row.status = "approved"
                       /\ LbSuspends(submit[p].gs[1]) =>
                             /\ submit'[p].pc = "lb"
                             /\ submit'[p].counts =
                                   LeaderboardCounts(submissions', teams, ev.id)
                 /\ ev.approvals_mode \in {"admin", "nonteammate"} =>
                       /\ row.status = "pending"
                       /\ row.approvals_required = ev.approvals_required
                       /\ submit'[p] = IdleSubmit
                       /\ out' = out /\ bingos' = bingos]_vars

\* a submission stored approved under policy none, its handler suspended in
\* the leaderboard refresh
C11_Witness ==
    \E p \in Submitters, s \in SubIds :
        /\ submit[p].pc = "lb"
        /\ submissions[s].message_id = submit[p].msg
        /\ submissions[s].status = "approved"
        /\ bingos[submissions[s].bingo_id].approvals_mode = "none"
        /\ CountApprovals(approvals, s) = 0

\* C12: an approval signal of a user without manage_guild / administrator, or
\* whose member lookup fails, inserts no approvals row, changes no submission
\* or event, announces nothing and ends the handler, under every policy.
C12_UnauthorizedIgnored ==
    [][\A p \in Reactors :
          (\/ ReactMember(p, FALSE)
           \/ ReactMember(p, TRUE) /\ ~IsAdmin(react[p].user)
           \/ \E u \in Users, m \in SubMessages :
                 ~IsAdmin(u) /\ OnRawReactionAdd(p, HomeGuild, u, m, APPROVE_EMOJI, TRUE))
          => /\ approvals' = approvals
             /\ submissions' = submissions
             /\ bingos' = bingos
             /\ react'[p] = IdleReact
             /\ \A s \in SubIds :
                   Count(out', "appr_ann", s) = Count(out, "appr_ann", s)]_vars

\* under the nonteammate policy a signal was turned away: the submission is
\* pending with no approvals row
C12_Witness ==
    \E s \in SubIds :
        /\ Count(out, "denied", 0) = 1
        /\ bingos[submissions[s].bingo_id].approvals_mode = "nonteammate"
        /\ submissions[s].status = "pending"
        /\ ApprovalRows(approvals, s) = {}
        /\ \A p \in Reactors : react[p].pc = "idle"

\* ------------------------------------------------ approvals by a teammate
\* a running event whose roster was put into teams; approvals are by the
\* moderator policy or by the non-teammate policy
MateConfigs ==
    [team_size : {0, 1}, start_utc : {0}, close_hours : {0},
     end_utc : {{}}, show_board_when : {"signup_created"},
     approvals_mode : {"admin", "nonteammate"}, approvals_required : 1..MaxRequired,
     board_image_path : {"board.png"}]

MateRoster == {1, 2}

MateInit ==
    /\ now = 0
    /\ guild_settings = {[guild_id |-> HomeGuild,
                          signup_channel_id |-> "c_text",
                          submissions_channel_id |-> "c_text",
                          announcements_channel_id |-> "c_text",
                          board_channel_id |-> "c_text"]}
    /\ \E cfg \in MateConfigs, order \in Shuffles(MateRoster) :
          /\ bingos = SetStatus(
                          SetLeaderboardMessageId(
                              SetSignupMessageId(CreateBingo(<<>>, HomeGuild, cfg),
                                                 1, SignupMsg(1)),
                              1, LbMsg(1, 1)),
                          1, "running")
          /\ teams = AssignTeams({}, 1, order, cfg.team_size)
    /\ signups = {1} \X MateRoster
    /\ frozen = (1 :> MateRoster)
    /\ submissions = <<>>
    /\ approvals = EmptyBag
    /\ setup = [p \in Setups |-> IdleSetup]
    /\ tick = IdleTick
    /\ submit = [p \in Submitters |-> IdleSubmit]
    /\ react = [p \in Reactors |-> IdleReact]
    /\ out = SetToBag({<<"board", 1>>, <<"lb_post", 1>>, <<"close", 1>>,
                       <<"team_ann", 1>>, <<"start_ann", 1>>})

\* user 1 submits (the submission is created pending, so handle_submission
\* ends there); the approval signals are handled one after the other
MateNext ==
    \/ HandleSubmission(1, HomeGuild, 1, "full_tile", MaxSubs)
    \/ \E ok \in BOOLEAN : SubmitPublished(1, ok)
    \/ \E ok \in BOOLEAN : SubmitCreate(1, ok)
    \/ \E u \in Users, m \in SubMessages, cached \in BOOLEAN :
          OnRawReactionAdd(1, HomeGuild, u, m, APPROVE_EMOJI, cached)
    \/ \E ok \in BOOLEAN : ReactMember(1, ok)
    \/ \E ok \in BOOLEAN : ReactAnnounced(1, ok)
    \/ \E ok \in BOOLEAN : ReactLeaderboard(1, ok)

SpecMate == MateInit /\ [][MateNext]_vars

\* the step in which the handler of reactor p settles the signal of user u on
\* the pending submission s, the member resolved or not
Settles(p, u, s, member) ==
    \/ /\ react[p].pc = "member"
       /\ react[p].user = u
       /\ react[p].sub[1].id = s
       /\ ReactMember(p, member)
    \/ /\ member
       /\ submissions[s].status = "pending"
       /\ OnRawReactionAdd(p, HomeGuild, u, submissions[s].message_id, APPROVE_EMOJI, TRUE)

\* C13: under nonteammate exactly as under admin, whatever the teams: a signal
\* is admitted iff its user was resolved and holds the administrative
\* capability, an admitted signal writes that one approvals row, and the
\* submission becomes approved at the signal that completes the quorum
C13_NonteammateAsAdmin ==
    [][/\ \A member \in BOOLEAN, u \in Users :
             Allowed("nonteammate", member, u) = Allowed("admin", member, u)
       /\ \A p \in Reactors, u \in Users, s \in SubIds, member \in BOOLEAN :
             Settles(p, u, s, member)
             => LET admitted == member /\ IsAdmin(u)
                IN  /\ approvals' = IF admitted THEN AddApproval(approvals, s, u)
                                    ELSE approvals
                    /\ submissions'[s].status =
                          IF admitted /\ CountApprovals(approvals', s)
                                            >= submissions[s].approvals_required
                          THEN "approved" ELSE submissions[s].status]_vars

\* a submission approved under nonteammate with an approver of the
\* submitter's own team
C13_Witness ==
    \E s \in SubIds, u \in Users, tn \in TeamNumbers(1) :
        /\ bingos[submissions[s].bingo_id].approvals_mode = "nonteammate"
        /\ submissions[s].status = "approved"
        /\ u # submissions[s].user_id
        /\ {u, submissions[s].user_id} \subseteq TeamMembers(1, tn)
        /\ u \in Approvers(s)

\* ------------------------------------------------- one scan over two events
\* two groups, each with its channels saved and one event open for signups
ScanConfigs ==
    [team_size : {2}, start_utc : 1..MaxTime, close_hours : {0, 1},
     end_utc : {{}}, show_board_when : ShowBoardChoices,
     approvals_mode : {"none"}, approvals_required : {0},
     board_image_path : {"board.png"}]

ScanSettings(g) ==
    [guild_id |-> g,
     signup_channel_id |-> "c_text",
     submissions_channel_id |-> "c_text",
     announcements_channel_id |-> "c_text",
     board_channel_id |-> "c_text"]

ScanInit ==
    /\ now = 0
    /\ guild_settings = {ScanSettings(g) : g \in Guilds}
    /\ \E c1 \in ScanConfigs, c2 \in ScanConfigs :
          bingos = CreateBingo(CreateBingo(<<>>, "g1", c1), "g2", c2)
    /\ signups = {<<1, 1>>, <<1, 2>>, <<2, 1>>}
    /\ teams = {}
    /\ submissions = <<>>
    /\ approvals = EmptyBag
    /\ setup = [p \in Setups |-> IdleSetup]
    /\ tick = IdleTick
    /\ submit = [p \in Submitters |-> IdleSubmit]
    /\ react = [p \in Reactors |-> IdleReact]
    /\ frozen = <<>>
    /\ out = EmptyBag

ScanNext ==
    \/ TickNext
    \/ Advance

\* the task loop runs again after every interval and every await of a pass
\* returns or raises
SpecScan == ScanInit /\ [][ScanNext]_vars /\ WF_vars(TickNext)

\* an await of handle_bingo_state raised
TickRaised == TickCloseAnnounced(FALSE) \/ TickStartAnnounced(FALSE)

\* C14: a raise while one event is advanced leaves the rest of the pass to be
\* handled (the loop goes on with the rows not yet taken), the row taken next
\* is transitioned if it is due, and passes keep coming: an event due to
\* close is closed and an event due to start is started in the end
C14_FailureIsolated ==
    /\ [][/\ TickRaised => tick' = [tick EXCEPT !.pc = "next"]
          /\ HandleBingoState
             => LET row == Head(tick.rows)
                IN  /\ CloseDue(row, now) => bingos'[row.id].status # "signup_open"
                    /\ ~CloseDue(row, now) /\ StartDue(row, now)
                       => bingos'[row.id].status = "running"]_vars
    /\ \A b \in 1..2 :
          /\ (b \in BingoIds /\ bingos[b].status = "signup_open"
                /\ now >= bingos[b].signup_close_utc)
             ~> (bingos[b].status # "signup_open")
          /\ (b \in BingoIds /\ bingos[b].status \in {"signup_open", "signup_closed"}
                /\ now >= bingos[b].start_utc)
             ~> (bingos[b].status = "running")

\* both events due from the start; in the first pass the team announcement of
\* event 2 raised (its board, due at close, was never sent) and event 1, taken
\* next, was closed
C14_Witness ==
    /\ now = 0
    /\ tick.pc # "sleep"
    /\ tick.cur # <<>>
    /\ tick.cur[1].id = 1
    /\ tick.cur[1].status = "signup_open"
    /\ bingos[1].status = "signup_closed"
    /\ bingos[2].status = "signup_closed"
    /\ bingos[2].show_board_when = "signups_close"
    /\ Count(out, "board", 2) = 0
    /\ TeamUsers(1) = {1, 2}

\* ------------------------------------------------ deliveries that may fail
\* an event open for signups with two users joined and one submission of
\* user 1 awaiting one approval; the scheduler scans, user 2 approves
DeliverConfigs ==
    [team_size : {2}, start_utc : 1..MaxTime, close_hours : {0, 1},
     end_utc : {{}}, show_board_when : ShowBoardChoices,
     approvals_mode : {"admin"}, approvals_required : {1},
     board_image_path : {"board.png"}]

DeliverInit ==
    /\ now = 0
    /\ guild_settings = {ScanSettings(HomeGuild)}
    /\ \E cfg \in DeliverConfigs :
          /\ bingos = SetLeaderboardMessageId(
                          SetSignupMessageId(CreateBingo(<<>>, HomeGuild, cfg),
                                             1, SignupMsg(1)),
                          1, LbMsg(1, 1))
          /\ out = LET o == Emit(Emit(EmptyBag, "lb_post", 1), "sub_msg", 0)
                   IN  IF cfg.show_board_when = "signup_created"
                       THEN Emit(o, "board", 1) ELSE o
    /\ signups = {1} \X {1, 2}
    /\ teams = {}
    /\ submissions = CreateSubmission(<<>>, 1, 1, "full_tile", SubMsg(1), "pending", 1)
    /\ approvals = EmptyBag
    /\ setup = [p \in Setups |-> IdleSetup]
    /\ tick = IdleTick
    /\ submit = [p \in Submitters |-> IdleSubmit]
    /\ react = [p \in Reactors |-> IdleReact]
    /\ frozen = <<>>

DeliverNext ==
    \/ TickOne
    \/ Advance
    \/ \E cached \in BOOLEAN :
          OnRawReactionAdd(1, HomeGuild, 2, SubMsg(1), APPROVE_EMOJI, cached)
    \/ \E ok \in BOOLEAN : ReactMember(1, ok)
    \/ \E ok \in BOOLEAN : ReactAnnounced(1, ok)
    \/ \E ok \in BOOLEAN : ReactLeaderboard(1, ok)

SpecDeliver == DeliverInit /\ [][DeliverNext]_vars

\* the event the scheduler is advancing keeps the teams written at its close
ClosedAsWritten ==
    LET b == tick.cur[1].id
    IN  /\ teams' = teams
        /\ b \in DOMAIN frozen
        /\ TeamUsers(b) = frozen[b]
        /\ bingos'[b].status \in {"signup_closed", "running"}

\* C15: a delivery that fails leaves what was written before it: after the
\* team announcement, the board at close or the leaderboard at close the
\* event is still closed with its teams; after the start announcement or the
\* board at start it is still running; after the approval announcement or the
\* leaderboard refresh the submission is still approved with its approvals
C15_DeliveryFailureKeepsState ==
    [][/\ TickCloseAnnounced(FALSE)
          => ClosedAsWritten /\ bingos' = bingos
                /\ bingos[tick.cur[1].id].status = "signup_closed"
       /\ (TickCloseBoard \/ TickCloseLeaderboard(FALSE)) => ClosedAsWritten
       /\ (TickStartAnnounced(FALSE) \/ TickStartBoard)
          => /\ bingos' = bingos
             /\ bingos[tick.cur[1].id].status = "running"
             /\ teams' = teams
       /\ \A p \in Reactors :
             (ReactAnnounced(p, FALSE) \/ ReactLeaderboard(p, FALSE))
             => /\ submissions' = submissions
                /\ approvals' = approvals
                /\ submissions[react[p].sub[1].id].status = "approved"
                /\ CountApprovals(approvals, react[p].sub[1].id)
                      >= react[p].sub[1].approvals_required]_vars

\* the team announcement raised (the board due at close was never sent) and
\* the approval announcement was attempted: the event is closed with both
\* users in teams and the submission is approved
C15_Witness ==
    /\ tick.pc = "sleep"
    /\ bingos[1].show_board_when = "signups_close"
    /\ Count(out, "board", 1) = 0
    /\ Count(out, "team_ann", 1) = 1
    /\ bingos[1].status = "signup_closed"
    /\ TeamUsers(1) = {1, 2}
    /\ Count(out, "appr_ann", 1) = 1
    /\ react[1].pc = "idle"
    /\ submissions[1].status = "approved"

\* C16: a wizard cancelled at a question before the board image creates no
\* bingos row and ends; cancelled after the four channels were collected, it
\* leaves the guild_settings row it wrote for the guild in the store
C16_AbortKeepsSettings ==
    [][\A p \in Setups :
          BingoSetupCancel(p)
          => /\ bingos' = bingos
             /\ setup'[p].pc = "idle"
             /\ guild_settings' = guild_settings
             /\ setup[p].pc = "params"
                => /\ setup[p].gs[1] \in guild_settings'
                   /\ GetGuildSettings(setup[p].guild) = {setup[p].gs[1]}]_vars

\* the wizard was cancelled after the channels: its settings are stored and
\* there is no event
C16_Witness ==
    /\ setup[1].pc = "idle"
    /\ bingos = <<>>
    /\ \E r \in guild_settings : r.guild_id = HomeGuild

\* C17 (as stated): for each event at most one leaderboard post is ever
\* created, whatever the interleaving of the publishers
C17_OneLeaderboardPost ==
    \A b \in BingoIds : Count(out, "lb_post", b) <= 1

\* ------------------------------------- a second event in the same group
\* two operators started !bingosetup in the group while it had no event; the
\* first has finished (event 1, approvals by one admin), the second is still
\* answering the wizard's questions
SnapFirst ==
    [team_size |-> 0, start_utc |-> 1, close_hours |-> 0, end_utc |-> {},
     show_board_when |-> "bingo_start", approvals_mode |-> "admin",
     approvals_required |-> 1, board_image_path |-> "board.png"]

SnapConfigs ==
    {cfg \in [team_size : {0}, start_utc : {1}, close_hours : {0},
              end_utc : {{}}, show_board_when : {"signup_created", "bingo_start"},
              approvals_mode : {"none", "admin"}, approvals_required : 0..MaxRequired,
              board_image_path : {"board.png"}] :
        (cfg.approvals_mode = "none") <=> (cfg.approvals_required = 0)}

SnapInit ==
    /\ now = 0
    /\ guild_settings = {ScanSettings(HomeGuild)}
    /\ bingos = SetLeaderboardMessageId(
                    SetSignupMessageId(CreateBingo(<<>>, HomeGuild, SnapFirst),
                                       1, SignupMsg(1)),
                    1, LbMsg(1, 1))
    /\ signups = {}
    /\ teams = {}
    /\ submissions = <<>>
    /\ approvals = EmptyBag
    /\ setup = [p \in Setups |->
                  IF p = 2 THEN [IdleSetup EXCEPT !.pc = "params", !.guild = HomeGuild,
                                                  !.gs = <<ScanSettings(HomeGuild)>>]
                  ELSE IdleSetup]
    /\ tick = IdleTick
    /\ submit = [p \in Submitters |-> IdleSubmit]
    /\ react = [p \in Reactors |-> IdleReact]
    /\ frozen = <<>>
    /\ out = Emit(EmptyBag, "lb_post", 1)

SnapNext ==
    \/ \E cfg \in SnapConfigs : BingoSetupCreate(2, cfg)
    \/ SetupSteps(2)
    \/ HandleSubmission(1, HomeGuild, 1, "full_tile", MaxSubs)
    \/ \E ok \in BOOLEAN : SubmitPublished(1, ok)
    \/ \E ok \in BOOLEAN : SubmitCreate(1, ok)
    \/ \E ok \in BOOLEAN : SubmitLeaderboard(1, ok)
    \/ \E u \in Users, m \in SubMessages, cached \in BOOLEAN :
          OnRawReactionAdd(1, HomeGuild, u, m, APPROVE_EMOJI, cached)
    \/ \E ok \in BOOLEAN : ReactMember(1, ok)
    \/ \E ok \in BOOLEAN : ReactAnnounced(1, ok)
    \/ \E ok \in BOOLEAN : ReactLeaderboard(1, ok)

SpecSnap == SnapInit /\ [][SnapNext]_vars

\* C18 (as stated): what a signal does to a pending submission is decided by
\* what was captured when the submission was created (it is pending, so its
\* event asked for approvals, and approvals_required is its threshold), not by
\* the policy or the threshold of the event as read when the signal is
\* handled: the signal of a resolved admin is recorded, and the submission is
\* approved exactly when the count reaches the captured threshold
C18_QuorumFromSnapshot ==
    [][\A p \in Reactors, u \in Users, s \in SubIds :
          (Settles(p, u, s, TRUE) /\ IsAdmin(u))
          => /\ approvals' = AddApproval(approvals, s, u)
             /\ submissions'[s].status =
                   IF CountApprovals(approvals', s) >= submissions[s].approvals_required
                   THEN "approved" ELSE submissions[s].status]_vars

\* ------------------------------------------------ the foreign keys of _init_db
\* _conn: PRAGMA foreign_keys = ON on every connection of the store
ForeignKeysOff == FALSE

ForeignKeys == TRUE

\* a rowid whose row was deleted (AUTOINCREMENT does not hand it out again)
Vacant == [id |-> 0]

RowExists(tbl, i) == i \in DOMAIN tbl /\ tbl[i].id = i

\* signups.bingo_id and teams.bingo_id REFERENCES bingos(id) ON DELETE CASCADE
CascadeByBingo(tbl, b) == IF ForeignKeys THEN {r \in tbl : r[1] # b} ELSE tbl

\* submissions.bingo_id REFERENCES bingos(id) ON DELETE CASCADE
CascadeSubmissions(tbl, b) ==
    IF ForeignKeys
    THEN [i \in DOMAIN tbl |->
             IF RowExists(tbl, i) /\ tbl[i].bingo_id = b THEN Vacant ELSE tbl[i]]
    ELSE tbl

\* approvals.submission_id REFERENCES submissions(id) ON DELETE CASCADE: the
\* rows of the submissions that are in `before` and no longer in `after`
CascadeApprovals(appr, before, after) ==
    IF ForeignKeys
    THEN LET kept == {r \in DOMAIN appr :
                         ~(RowExists(before, r[1]) /\ ~RowExists(after, r[1]))}
         IN  [r \in kept |-> appr[r]]
    ELSE appr

\* DELETE FROM bingos WHERE id = b on a connection of the store
DeleteBingo(b) ==
    /\ RowExists(bingos, b)
    /\ bingos' = [bingos EXCEPT ![b] = Vacant]
    /\ signups' = CascadeByBingo(signups, b)
    /\ teams' = CascadeByBingo(teams, b)
    /\ submissions' = CascadeSubmissions(submissions, b)
    /\ approvals' = CascadeApprovals(approvals, submissions, submissions')
    /\ UNCHANGED <<now, guild_settings, setup, tick, submit, react, frozen, out>>

\* two groups with one running event each (approvals by one admin), users
\* signed up and in one team, up to two submissions of user 1, each pending
\* or approved by user 2
CascadeFirst ==
    [team_size |-> 0, start_utc |-> 0, close_hours |-> 0, end_utc |-> {},
     show_board_when |-> "bingo_start", approvals_mode |-> "admin",
     approvals_required |-> 1, board_image_path |-> "board.png"]

CascadeSubs ==
    {<<>>} \cup [1..1 -> {1, 2} \X {"pending", "approved"}]
           \cup [1..2 -> {1, 2} \X {"pending", "approved"}]

RECURSIVE CascadeStore(_, _)
CascadeStore(spec, n) ==
    IF n = 0 THEN <<>>
    ELSE CreateSubmission(CascadeStore(spec, n - 1), spec[n][1], 1, "full_tile",
                          SubMsg(n), spec[n][2], 1)

CascadeInit ==
    /\ now = 0
    /\ guild_settings = {ScanSettings(g) : g \in Guilds}
    /\ bingos = SetStatus(SetStatus(
                    CreateBingo(CreateBingo(<<>>, "g1", CascadeFirst), "g2", CascadeFirst),
                    1, "running"), 2, "running")
    /\ \E r1 \in SUBSET {1, 2}, r2 \in SUBSET {1, 2} :
          /\ signups = ({1} \X r1) \cup ({2} \X r2)
          /\ teams = {<<1, 1, u>> : u \in r1} \cup {<<2, 1, u>> : u \in r2}
          /\ frozen = (1 :> r1) @@ (2 :> r2)
    /\ \E spec \in CascadeSubs :
          /\ submissions = CascadeStore(spec, Len(spec))
          /\ approvals = SetToBag({<<s, 2>> : s \in {i \in 1..Len(spec) :
                                                        spec[i][2] = "approved"}})
          /\ out = IF spec = <<>> THEN EmptyBag ELSE (<<"sub_msg", 0>> :> Len(spec))
    /\ setup = [p \in Setups |-> IdleSetup]
    /\ tick = IdleTick
    /\ submit = [p \in Submitters |-> IdleSubmit]
    /\ react = [p \in Reactors |-> IdleReact]

CascadeNext == \E b \in 1..2 : DeleteBingo(b)

SpecCascade == CascadeInit /\ [][CascadeNext]_vars

\* C19: deleting the bingos row b leaves no signups, teams or submissions row
\* of b and no approvals row of a submission of b, and leaves every row of any
\* other event, every approvals row of their submissions and guild_settings
\* as they were
C19_DeleteCascades ==
    [][\A b \in BingoIds :
          DeleteBingo(b)
          => /\ ~RowExists(bingos', b)
             /\ {r \in signups' : r[1] = b} = {}
             /\ {r \in teams' : r[1] = b} = {}
             /\ \A s \in SubIds :
                   RowExists(submissions, s) /\ submissions[s].bingo_id = b
                   => /\ ~RowExists(submissions', s)
                      /\ \A u \in Users : ~BagIn(<<s, u>>, approvals')
             /\ \A c \in BingoIds \ {b} : bingos'[c] = bingos[c]
             /\ {r \in signups' : r[1] # b} = {r \in signups : r[1] # b}
             /\ {r \in teams' : r[1] # b} = {r \in teams : r[1] # b}
             /\ \A s \in SubIds :
                   ~(RowExists(submissions, s) /\ submissions[s].bingo_id = b)
                   => /\ submissions'[s] = submissions[s]
                      /\ \A u \in Users :
                            CopiesIn(<<s, u>>, approvals') = CopiesIn(<<s, u>>, approvals)
             /\ guild_settings' = guild_settings]_vars

\* event 1 was deleted with a submission of its own (the submission's rowid is
\* vacant); event 2 keeps its signups, its team and an approved submission
\* with the approval
C19_Witness ==
    /\ ~RowExists(bingos, 1)
    /\ RowExists(bingos, 2)
    /\ \E s \in SubIds : ~RowExists(submissions, s)
    /\ \E s \in SubIds :
          /\ RowExists(submissions, s)
          /\ submissions[s].bingo_id = 2
          /\ BagIn(<<s, 2>>, approvals)
    /\ {r \in signups : r[1] = 2} # {}
    /\ {r \in teams : r[1] = 2} # {}

\* C20 (as stated): whatever the interleaving of the handlers of approval
\* signals for one submission, at most one approval announcement is sent for
\* it, and no approvals row is inserted once its status is approved
C20_ApprovedOnce ==
    [][\A s \in SubIds :
          /\ Count(out', "appr_ann", s) <= 1
          /\ submissions[s].status = "approved"
             => ApprovalRows(approvals', s) = ApprovalRows(approvals, s)]_vars

\* C21: an event becomes running only from signup_open or signup_closed, in a
\* scan taken at or after its start time; its start announcement is sent at
\* most once, and never for an event that is already running
C21_StartOnce ==
    [][\A b \in BingoIds :
          /\ (bingos'[b].status = "running" /\ bingos[b].status # "running")
             => /\ bingos[b].status \in {"signup_open", "signup_closed"}
                /\ tick'.cur # <<>>
                /\ tick'.cur[1].id = b
                /\ tick'.tnow >= bingos[b].start_utc
                /\ now >= bingos[b].start_utc
          /\ Count(out', "start_ann", b) <= 1
          /\ bingos[b].status = "running"
             => Count(out', "start_ann", b) = Count(out, "start_ann", b)]_vars

\* a later scan is handling the event, having read status running, after the
\* one start announcement
C21_Witness ==
    /\ tick.cur # <<>>
    /\ tick.cur[1].status = "running"
    /\ tick.tnow >= tick.cur[1].start_utc
    /\ Count(out, "start_ann", tick.cur[1].id) = 1

\* the awaits of handle_bingo_state in the order of its text
PhaseRank(pc) ==
    CASE pc = "close_ann" -> 1
      [] pc = "close_board" -> 2
      [] pc = "close_lb" -> 3
      [] pc = "start_ann" -> 4
      [] pc = "start_board" -> 5
      [] OTHER -> 0

\* C22: within one call of handle_bingo_state the awaits are passed in the
\* order team announcement, board at close, leaderboard, start announcement,
\* board at start.  When the team announcement is sent the status is already
\* signup_closed and the teams are the roster just read, listed by ascending
\* team number; the board at close is sent after the team announcement, the
\* leaderboard after both; the start announcement and the board at start are
\* sent with the status already running
C22_CloseThenStartOrder ==
    [][(tick' # tick /\ PhaseRank(tick'.pc) > 0) =>
       LET b == tick'.cur[1].id
           gs == tick'.gs[1]
           row == tick'.cur[1]
           text == IsTextChannel(gs.announcements_channel_id)
           lines == TeamAnnouncement(teams', b)
           rows == {r \in teams' : r[1] = b}
           users == {r[3] : r \in rows}
       IN  /\ PhaseRank(tick.pc) > 0
              => /\ tick'.cur = tick.cur
                 /\ PhaseRank(tick'.pc) > PhaseRank(tick.pc)
           /\ tick'.pc = "close_ann"
              => /\ bingos'[b].status = "signup_closed"
                 /\ b \in DOMAIN frozen'
                 /\ users = frozen'[b]
                 /\ frozen'[b] = ListSignups(signups, b)
                 /\ {lines[i][1] : i \in DOMAIN lines} = {r[2] : r \in rows}
                 /\ \A i \in DOMAIN lines, j \in DOMAIN lines :
                       i < j => lines[i][1] < lines[j][1]
                 /\ \A i \in DOMAIN lines : lines[i][2] = {r[3] : r \in {x \in rows : x[2] = lines[i][1]}}
                 /\ Count(out', "team_ann", b) = 1
                 /\ row.show_board_when = "signups_close" => Count(out', "board", b) = 0
           /\ tick'.pc \in {"close_board", "close_lb"}
              => /\ bingos'[b].status = "signup_closed"
                 /\ users = frozen'[b]
                 /\ text => Count(out', "team_ann", b) = 1
           /\ tick'.pc = "close_board" => Count(out', "board", b) = 1
           /\ (tick'.pc = "close_lb" /\ row.show_board_when = "signups_close"
                  /\ BoardSuspends(gs, row))
              => Count(out', "board", b) = 1
           /\ tick'.pc = "start_ann"
              => /\ bingos'[b].status = "running"
                 /\ Count(out', "start_ann", b) = 1
                 /\ row.show_board_when = "bingo_start" => Count(out', "board", b) = 0
           /\ tick'.pc = "start_board"
              => /\ bingos'[b].status = "running"
                 /\ text => Count(out', "start_ann", b) = 1
                 /\ Count(out', "board", b) = 1]_vars

\* the scheduler is publishing the leaderboard at close, with two solo teams
\* announced and the board, due at close, revealed
C22_Witness ==
    /\ tick.pc = "close_lb"
    /\ tick.cur[1].show_board_when = "signups_close"
    /\ Count(out, "team_ann", tick.cur[1].id) = 1
    /\ Count(out, "board", tick.cur[1].id) = 1
    /\ Len(TeamAnnouncement(teams, tick.cur[1].id)) = 2
    /\ bingos[tick.cur[1].id].status = "signup_closed"

\* C23: the board of an event is sent at most once, and only where its
\* show_board_when puts it: by the wizard after the signup post for
\* signup_created, by the scheduler in the close block for signups_close and
\* in the start block for bingo_start
C23_BoardOnceAtTrigger ==
    [][\A b \in 1..Len(bingos') :
          /\ Count(out', "board", b) <= 1
          /\ Count(out', "board", b) > Count(out, "board", b)
             => CASE bingos'[b].show_board_when = "signup_created" ->
                       /\ tick' = tick
                       /\ \E p \in Setups :
                             /\ setup[p].pc = "post"
                             /\ setup'[p].pc = "board"
                             /\ setup[p].bingo[1].id = b
                  [] bingos'[b].show_board_when = "signups_close" ->
                       /\ setup' = setup
                       /\ tick'.pc = "close_board"
                       /\ tick'.cur[1].id = b
                       /\ tick'.cur[1].status = "signup_open"
                       /\ bingos'[b].status = "signup_closed"
                  [] bingos'[b].show_board_when = "bingo_start" ->
                       /\ setup' = setup
                       /\ tick'.pc = "start_board"
                       /\ tick'.cur[1].id = b
                       /\ bingos'[b].status = "running"]_vars

\* an event whose board was sent by the wizard is running, the scheduler
\* having passed its start block, and the board was sent that once
C23_Witness ==
    \E b \in BingoIds :
        /\ bingos[b].show_board_when = "signup_created"
        /\ bingos[b].status = "running"
        /\ Count(out, "start_ann", b) = 1
        /\ Count(out, "board", b) = 1
        /\ tick.pc = "sleep"

\* C24 (as stated): once an event has left signup_open, reactions on its
\* signup post no longer change its signups rows: in every state with status
\* signup_closed or running the users signed up are the users with a teams row
C24_RosterFrozen ==
    \A b \in BingoIds :
        bingos[b].status \in {"signup_closed", "running"}
        => ListSignups(signups, b) = TeamUsers(b)

\* the step handles reaction e of user u, added to or removed from the signup
\* post of the guild's active event b
SignupSignal(u, b, e, added) ==
    /\ HasActiveBingo(bingos, HomeGuild)
    /\ GetActiveBingo(bingos, HomeGuild).id = b
    /\ bingos[b].signup_message_id = SignupMsg(b)
    /\ IF added THEN OnRawReactionAdd(1, HomeGuild, u, SignupMsg(b), e, TRUE)
       ELSE OnRawReactionRemove(HomeGuild, u, SignupMsg(b), e)

\* C25: the join reaction adds the user's signups row and changes nothing
\* when the row is there; the leave reaction, or the join reaction taken
\* back, deletes the user's row and changes nothing when there is none; no
\* row of another user or another event changes, and the roster read from
\* the table has one entry per row
C25_SignupRows ==
    [][\A u \in Joiners, b \in BingoIds :
          /\ SignupSignal(u, b, SIGNUP_EMOJI, TRUE)
             => /\ signups' = signups \cup {<<b, u>>}
                /\ <<b, u>> \in signups => signups' = signups
          /\ (SignupSignal(u, b, UNSIGN_EMOJI, TRUE) \/ SignupSignal(u, b, SIGNUP_EMOJI, FALSE))
             => /\ signups' = signups \ {<<b, u>>}
                /\ <<b, u>> \notin signups => signups' = signups
          /\ (\E e \in {SIGNUP_EMOJI, UNSIGN_EMOJI}, added \in BOOLEAN :
                 SignupSignal(u, b, e, added))
             => /\ {r \in signups' : r # <<b, u>>} = {r \in signups : r # <<b, u>>}
                /\ Cardinality(ListSignups(signups', b))
                      = Cardinality({r \in signups' : r[1] = b})]_vars

\* user 2 is signed up alone while signups are open and user 1 is not
C25_Witness ==
    \E b \in BingoIds :
        /\ bingos[b].status = "signup_open"
        /\ signups = {<<b, 2>>}

\* C26: what any handler can observe of an event that has left signup_open is
\* the whole team table of its close: every user of the roster read at close
\* with exactly one row, nobody else; and that roster is the signups table as
\* it stood in the step that wrote signup_closed
C26_CloseAtomic ==
    [][\A b \in 1..Len(bingos') :
          LET rows == {r \in teams' : r[1] = b}
          IN  /\ bingos'[b].status # "signup_open"
                 => /\ b \in DOMAIN frozen'
                    /\ {r[3] : r \in rows} = frozen'[b]
                    /\ Cardinality(rows) = Cardinality(frozen'[b])
              /\ (b \in BingoIds /\ bingos[b].status = "signup_open"
                    /\ bingos'[b].status # "signup_open")
                 => /\ frozen'[b] = ListSignups(signups, b)
                    /\ signups' = signups]_vars

\* the close block has run for both users and the scheduler is suspended in
\* the team announcement; both have left the roster meanwhile and the teams
\* are as written
C26_Witness ==
    /\ tick.pc = "close_ann"
    /\ TeamUsers(tick.cur[1].id) = Joiners
    /\ Cardinality(TeamRows(tick.cur[1].id)) = 2
    /\ ListSignups(signups, tick.cur[1].id) = {}

CloseDeliveryFailed(b) ==
    /\ b \in BingoIds
    /\ bingos[b].status # "signup_open"
    /\ Count(out, "lb_post", b) = 0
    /\ ~(tick.cur # <<>> /\ tick.cur[1].id = b
           /\ tick.pc \in {"close_ann", "close_board", "close_lb"})

\* C28: with scans that keep coming, an event whose signup close time has
\* passed is in the end closed for good and an event whose start time has
\* passed is in the end running for good, also from a state in which a
\* delivery of its close block has failed
C28_Progress ==
    \A b \in 1..2 :
        /\ (b \in BingoIds /\ now >= bingos[b].signup_close_utc)
           ~> [](bingos[b].status \in {"signup_closed", "running"})
        /\ (b \in BingoIds /\ now >= bingos[b].start_utc)
           ~> [](bingos[b].status = "running")
        /\ (CloseDeliveryFailed(b) /\ now >= bingos[b].start_utc)
           ~> (bingos[b].status = "running")

\* both events running and the pass over although for each a delivery of the
\* close block failed (no leaderboard was posted) and the start announcement
\* raised (the board, due at start, was never sent)
C28_Witness ==
    /\ tick.pc = "sleep"
    /\ \A b \in 1..2 :
          /\ CloseDeliveryFailed(b)
          /\ bingos[b].status = "running"
          /\ bingos[b].show_board_when = "bingo_start"
          /\ Count(out, "board", b) = 0
          /\ Count(out, "start_ann", b) = 1

\* a running event went through the signup-close block once and has a teams
\* row for exactly the users of the roster read there
TeamsBeforeRunning(b) ==
    bingos'[b].status = "running"
    => /\ Count(out', "close", b) = 1
       /\ b \in DOMAIN frozen'
       /\ {r[3] : r \in {x \in teams' : x[1] = b}} = frozen'[b]

\* C29: a running event has had its teams written at signup close, and a call
\* of handle_bingo_state that read the event signup_open at or after its
\* start time has, when it ends, closed the signups and started the event
C29_CloseBeforeStart ==
    [][/\ \A b \in 1..Len(bingos') : TeamsBeforeRunning(b)
       /\ (tick' # tick /\ tick'.pc = "next" /\ tick'.cur # <<>> /\ tick'.gs # <<>>
             /\ tick'.cur[1].status = "signup_open"
             /\ tick'.tnow >= tick'.cur[1].start_utc)
          => /\ Count(out', "close", tick'.cur[1].id) = 1
             /\ bingos'[tick'.cur[1].id].status = "running"]_vars

\* a call of handle_bingo_state that read the event signup_open at or after
\* its start time ends
LateFirstScanEnds ==
    /\ tick' # tick
    /\ tick'.pc = "next"
    /\ tick'.cur # <<>>
    /\ tick'.gs # <<>>
    /\ tick'.cur[1].status = "signup_open"
    /\ tick'.tnow >= tick'.cur[1].start_utc

\* C29 (amended): a running event has had its teams written at signup close;
\* a call that read the event signup_open at or after its start time has
\* closed the signups and, when it ends, started the event, unless the team
\* announcement raised: then the call leaves the event signup_closed with its
\* teams written, for a later scan to start
C29_TeamsBeforeRunning ==
    [][/\ \A b \in 1..Len(bingos') : TeamsBeforeRunning(b)
       /\ LateFirstScanEnds
          => LET b == tick'.cur[1].id
             IN  /\ Count(out', "close", b) = 1
                 /\ b \in DOMAIN frozen'
                 /\ {r[3] : r \in {x \in teams' : x[1] = b}} = frozen'[b]
                 /\ bingos'[b].status =
                       IF TickCloseAnnounced(FALSE) THEN "signup_closed"
                       ELSE "running"]_vars

\* the call that read the event signup_open after its start time has written
\* the teams of both users and started it
C29_Witness ==
    /\ tick.pc = "next"
    /\ tick.cur # <<>>
    /\ tick.cur[1].status = "signup_open"
    /\ tick.tnow >= tick.cur[1].start_utc
    /\ bingos[tick.cur[1].id].status = "running"
    /\ TeamUsers(tick.cur[1].id) = Joiners
    /\ Count(out, "start_ann", tick.cur[1].id) = 1

\* message m is the published message of a pending submission: its row is
\* stored pending, or handle_submission has sent it (line 811) for an event
\* with approvals and has not reached create_submission (line 817) yet
PendingMessage(m) ==
    \/ \E s \in SubIds : submissions[s].message_id = m /\ submissions[s].status = "pending"
    \/ \E q \in Submitters :
          /\ submit[q].pc = "react"
          /\ submit[q].msg = m
          /\ InitialStatus(submit[q].bingo[1]) = "pending"

\* the handler of an approval signal of user u on message m took its first
\* step and no approvals row of u for the submission of m is stored
SignalLost(p, u, m) ==
    /\ OnRawReactionAdd(p, HomeGuild, u, m, APPROVE_EMOJI, TRUE)
    /\ ~\E s \in 1..Len(submissions') :
           /\ submissions'[s].message_id = m
           /\ BagIn(<<s, u>>, approvals')

\* C30: an approval signal of a resolved member holding the capability, on
\* the published message of a pending submission, leaves an approvals row of
\* that member for the submission of that message: in no state can the
\* handler of such a signal run and leave none
C30_NoApprovalLost ==
    \A p \in Reactors, u \in Users, m \in SubMessages :
        (IsAdmin(u) /\ PendingMessage(m)) => ~ENABLED SignalLost(p, u, m)

====
